---- MODULE Spec2Model ----
(***************************************************************************)
(* Load/stress generation core of webuniversal-blackbox-test:              *)
(*   app/services/load_generator.py  (AdvancedLoadGenerator,               *)
(*                                     ResourceMonitor)                     *)
(*                                                                         *)
(* Time is counted in ticks; one second is TicksPerSecond ticks, so that   *)
(* sub-second instants exist.  Python's None is modelled by NoTime for an  *)
(* Optional[float] and by NoError for an Optional[str].                    *)
(*                                                                         *)
(* asyncio is cooperative: the code between two awaits runs atomically, so *)
(* every action below is the code of one task from one suspension point    *)
(* to the next.                                                            *)
(***************************************************************************)
EXTENDS Integers, Sequences, FiniteSets, TLC

\* ------------------------------------------------------------------ bounds
TicksPerSecond == 2
\* number of ticks the clock may advance during one run
MaxTime == 4
\* total number of virtual-user simulators of one run
MaxSims == 2
\* requests that return within the modelled window of one run
MaxResults == 2
\* outcomes in a synthetic result list
MaxOutcomes == 3
\* length (ticks) of the run window of a synthetic result list
MaxSpan == 2
\* outcomes of a result list whose errors are analysed
MaxErrOutcomes == 2
\* the longest duration_seconds of a watched generator
MaxProgressDuration == 2
\* the largest machine profiled: logical CPUs and memory in GB
MaxCpus == 17
MaxMemoryGb == 33
\* calls of run_load_test() on one generator
MaxRuns == 2
\* the longest a call of _execute_request takes, in ticks
MaxRequestTicks == 1
\* crawl_site: paths of the site, links of a page, max_depth, max_pages
MaxPath == 3
MaxLinks == 2
MaxDepth == 2
MaxPages == 3
\* StressTester: concurrent_users, seconds of duration and of ramp-up, and
\* ticks of think time
MaxStressUsers == 2
MaxStressSeconds == 1
MaxThinkTicks == 1

\* ------------------------------------------------------- program constants
\* LoadGeneratorConfig defaults
max_cpu_usage_percent == 80
max_memory_usage_percent == 85

NoTime == -1
NoError == "None"

\* --------------------------------------------------------------- rationals
Rat(n, d) == [num |-> n, den |-> d]
RatEq(a, b) == a.num * b.den = b.num * a.den
RatLeq(a, b) == a.num * b.den <= b.num * a.den
RatInt(n) == Rat(n, 1)
RatAdd(a, b) == Rat(a.num * b.den + b.num * a.den, a.den * b.den)
RatSub(a, b) == Rat(a.num * b.den - b.num * a.den, a.den * b.den)
RatMul(a, b) == Rat(a.num * b.num, a.den * b.den)
\* float.is_integer() and int() of a non-negative value
RatIsInteger(a) == a.num % a.den = 0
RatMin(a, b) == IF RatLeq(a, b) THEN a ELSE b
RatMax(a, b) == IF RatLeq(a, b) THEN b ELSE a
RatTrunc(a) == a.num \div a.den

Min2(a, b) == IF a <= b THEN a ELSE b
SeqToSet(s) == {s[i] : i \in 1..Len(s)}
RECURSIVE SeqSum(_)
SeqSum(s) == IF s = <<>> THEN 0 ELSE Head(s) + SeqSum(Tail(s))
SetMax(S) == CHOOSE x \in S : \A y \in S : y <= x
SetMin(S) == CHOOSE x \in S : \A y \in S : x <= y

VARIABLES
    config,              \* LoadGeneratorConfig (never changes after Init)
    system_specs,        \* SystemSpecs computed by __init__
    now,                 \* time.time(), in ticks
    opc,                 \* where run_load_test() is
    start_time, end_time,
    results,             \* AdvancedLoadGenerator.results
    active_users, completed_requests, failed_requests,
    groups,              \* one _execute_thread_group task per thread group
    sims,                \* one _simulate_virtual_user task per (group_id, user_id)
    monitor,             \* ResourceMonitor and its _monitor_resources task
    pending,             \* the exception run_load_test is propagating, if any
    ext_cancel,          \* how the caller's wait_for / cancel() met the run
    result,              \* the LoadTestResult run_load_test returned
    exec,                \* one call of _execute_request and its browser
    sampled,             \* what _validate_system_capacity read from psutil
    host,                \* what psutil reports of the machine: CPUs, memory
    peak_rps,            \* AdvancedLoadGenerator.peak_rps
    progress,            \* the ProgressMonitor that watches the generator
    crawl,               \* one call of crawl_site and its locals
    stress,              \* a StressTester and one call of run_stress_test
    runs,                \* the calls of run_load_test() on the generator so far
    progress_task        \* progress_callback and the _progress_monitor task

vars == <<config, system_specs, now, opc, start_time, end_time, results,
          active_users, completed_requests, failed_requests, groups, sims,
          monitor, pending, ext_cancel, result, exec, sampled, host,
          peak_rps, progress, crawl, stress, runs, progress_task>>

\* self.progress_callback = None: _execute_load_test creates no progress task
NoProgressTask == [callback |-> FALSE, pc |-> "none", cancel |-> FALSE, wake |-> 0]

\* crawl_site is not called
NoCrawl == [pc |-> "none"]

\* no StressTester is constructed
NoStress == [pc |-> "none"]

\* no ProgressMonitor watches the run
NoProgress == [pc |-> "none"]

\* =================================================== statistics reduction
\* a RequestOutcome, the dict _execute_request returns
Outcome(g, u, r, st, et, ok, msg, rt) ==
    [group_id |-> g, user_id |-> u, request_id |-> r, start_time |-> st,
     end_time |-> et, success |-> ok, error_message |-> msg, response_time |-> rt]

IsSuccess(r) == r.success
IsTimed(r) == r.success /\ r.response_time > 0

\* nearest-rank percentile: what _percentile would be without interpolation
percentile_nearest_rank(data, p) ==
    IF data = <<>> THEN RatInt(0)
    ELSE LET sorted_data == SortSeq(data, LAMBDA a, b : a < b)
             index == RatMul(Rat(p, 100), RatInt(Len(sorted_data) - 1))
         IN  RatInt(sorted_data[RatTrunc(index) + 1])

\* a percentile read from the list as it was appended, without sorted()
percentile_unsorted(data, p) ==
    IF data = <<>> THEN RatInt(0)
    ELSE LET index == RatMul(Rat(p, 100), RatInt(Len(data) - 1))
         IN  IF RatIsInteger(index)
             THEN RatInt(data[RatTrunc(index) + 1])
             ELSE LET lower == data[RatTrunc(index) + 1]
                      upper == data[RatTrunc(index) + 2]
                  IN  RatAdd(RatInt(lower),
                             RatMul(RatInt(upper - lower),
                                    RatSub(index, RatInt(RatTrunc(index)))))

\* _percentile
percentile(data, p) ==
    IF data = <<>> THEN RatInt(0)
    ELSE LET sorted_data == SortSeq(data, LAMBDA a, b : a < b)
             index == RatMul(Rat(p, 100), RatInt(Len(sorted_data) - 1))
         IN  IF RatIsInteger(index)
             THEN RatInt(sorted_data[RatTrunc(index) + 1])
             ELSE LET lower == sorted_data[RatTrunc(index) + 1]
                      upper == sorted_data[RatTrunc(index) + 2]
                  IN  RatAdd(RatInt(lower),
                             RatMul(RatInt(upper - lower),
                                    RatSub(index, RatInt(RatTrunc(index)))))

\* the one-second bucket of an instant: int(result['start_time'])
Window(t) == t \div TicksPerSecond

\* _calculate_peak_rps
calculate_peak_rps(rs) ==
    IF rs = <<>> THEN 0
    ELSE LET windows == [w \in {Window(rs[i].start_time) : i \in 1..Len(rs)} |->
                            Cardinality({i \in 1..Len(rs) :
                                            Window(rs[i].start_time) = w})]
         IN  SetMax({windows[w] : w \in DOMAIN windows})

\* ======================================================== error analysis
\* the words _categorize_error looks for
ErrorWords ==
    {"timeout", "network", "connection", "404", "not found", "500",
     "server error", "javascript", "script"}

\* the texts str(e) of the modelled failures; the last one is the empty text
ErrorTexts ==
    {"Timeout 30000ms exceeded", "net::ERR_CONNECTION_REFUSED", "404",
     "weird failure xyz", "TIMEOUT",
     "Navigation timeout: network idle", "Network unreachable",
     "connection reset, status 404", "Page Not Found",
     "404 server error", "HTTP 500", "Internal Server Error",
     "500: javascript crashed", "JavaScript heap out of memory",
     "Script error.", "description missing", "timed out",
     "5000 ms elapsed", "port 14045 closed", ""}

\* the characters of a text, one by one
Chars(text) ==
    CASE text = "timeout" ->
            <<"t", "i", "m", "e", "o", "u", "t">>
      [] text = "network" ->
            <<"n", "e", "t", "w", "o", "r", "k">>
      [] text = "connection" ->
            <<"c", "o", "n", "n", "e", "c", "t", "i", "o", "n">>
      [] text = "404" ->
            <<"4", "0", "4">>
      [] text = "not found" ->
            <<"n", "o", "t", " ", "f", "o", "u", "n", "d">>
      [] text = "500" ->
            <<"5", "0", "0">>
      [] text = "server error" ->
            <<"s", "e", "r", "v", "e", "r", " ", "e", "r", "r", "o", "r">>
      [] text = "javascript" ->
            <<"j", "a", "v", "a", "s", "c", "r", "i", "p", "t">>
      [] text = "script" ->
            <<"s", "c", "r", "i", "p", "t">>
      [] text = "Timeout 30000ms exceeded" ->
            <<"T", "i", "m", "e", "o", "u", "t", " ", "3", "0", "0", "0",
            "0", "m", "s", " ", "e", "x", "c", "e", "e", "d", "e", "d">>
      [] text = "net::ERR_CONNECTION_REFUSED" ->
            <<"n", "e", "t", ":", ":", "E", "R", "R", "_", "C", "O", "N",
            "N", "E", "C", "T", "I", "O", "N", "_", "R", "E", "F", "U",
            "S", "E", "D">>
      [] text = "404" ->
            <<"4", "0", "4">>
      [] text = "weird failure xyz" ->
            <<"w", "e", "i", "r", "d", " ", "f", "a", "i", "l", "u", "r",
            "e", " ", "x", "y", "z">>
      [] text = "TIMEOUT" ->
            <<"T", "I", "M", "E", "O", "U", "T">>
      [] text = "Navigation timeout: network idle" ->
            <<"N", "a", "v", "i", "g", "a", "t", "i", "o", "n", " ", "t",
            "i", "m", "e", "o", "u", "t", ":", " ", "n", "e", "t", "w",
            "o", "r", "k", " ", "i", "d", "l", "e">>
      [] text = "Network unreachable" ->
            <<"N", "e", "t", "w", "o", "r", "k", " ", "u", "n", "r", "e",
            "a", "c", "h", "a", "b", "l", "e">>
      [] text = "connection reset, status 404" ->
            <<"c", "o", "n", "n", "e", "c", "t", "i", "o", "n", " ", "r",
            "e", "s", "e", "t", ",", " ", "s", "t", "a", "t", "u", "s",
            " ", "4", "0", "4">>
      [] text = "Page Not Found" ->
            <<"P", "a", "g", "e", " ", "N", "o", "t", " ", "F", "o", "u",
            "n", "d">>
      [] text = "404 server error" ->
            <<"4", "0", "4", " ", "s", "e", "r", "v", "e", "r", " ", "e",
            "r", "r", "o", "r">>
      [] text = "HTTP 500" ->
            <<"H", "T", "T", "P", " ", "5", "0", "0">>
      [] text = "Internal Server Error" ->
            <<"I", "n", "t", "e", "r", "n", "a", "l", " ", "S", "e", "r",
            "v", "e", "r", " ", "E", "r", "r", "o", "r">>
      [] text = "500: javascript crashed" ->
            <<"5", "0", "0", ":", " ", "j", "a", "v", "a", "s", "c", "r",
            "i", "p", "t", " ", "c", "r", "a", "s", "h", "e", "d">>
      [] text = "JavaScript heap out of memory" ->
            <<"J", "a", "v", "a", "S", "c", "r", "i", "p", "t", " ", "h",
            "e", "a", "p", " ", "o", "u", "t", " ", "o", "f", " ", "m",
            "e", "m", "o", "r", "y">>
      [] text = "Script error." ->
            <<"S", "c", "r", "i", "p", "t", " ", "e", "r", "r", "o", "r",
            ".">>
      [] text = "description missing" ->
            <<"d", "e", "s", "c", "r", "i", "p", "t", "i", "o", "n", " ",
            "m", "i", "s", "s", "i", "n", "g">>
      [] text = "timed out" ->
            <<"t", "i", "m", "e", "d", " ", "o", "u", "t">>
      [] text = "5000 ms elapsed" ->
            <<"5", "0", "0", "0", " ", "m", "s", " ", "e", "l", "a", "p",
            "s", "e", "d">>
      [] text = "port 14045 closed" ->
            <<"p", "o", "r", "t", " ", "1", "4", "0", "4", "5", " ", "c",
            "l", "o", "s", "e", "d">>
      [] text = "" ->
            <<>>

UpperCase == <<"A", "B", "C", "D", "E", "F", "G", "H", "I", "J", "K", "L", "M",
               "N", "O", "P", "Q", "R", "S", "T", "U", "V", "W", "X", "Y", "Z">>
LowerCase == <<"a", "b", "c", "d", "e", "f", "g", "h", "i", "j", "k", "l", "m",
               "n", "o", "p", "q", "r", "s", "t", "u", "v", "w", "x", "y", "z">>

\* str.lower(), on characters
lower(chars) ==
    [i \in 1..Len(chars) |->
        IF \E k \in 1..26 : UpperCase[k] = chars[i]
        THEN LowerCase[CHOOSE k \in 1..26 : UpperCase[k] = chars[i]]
        ELSE chars[i]]

\* word in chars
In(word, chars) ==
    LET w == Chars(word)
    IN  \E i \in 1..(Len(chars) - Len(w) + 1) :
            SubSeq(chars, i, i + Len(w) - 1) = w

\* _categorize_error without the lower(): every test on the text as it is
categorize_error_case_sensitive(error_message) ==
    LET text == Chars(error_message)
    IN  IF In("timeout", text) THEN "Timeout"
        ELSE IF In("network", text) \/ In("connection", text)
        THEN "Network Error"
        ELSE IF In("404", text) \/ In("not found", text) THEN "404 Not Found"
        ELSE IF In("500", text) \/ In("server error", text) THEN "Server Error"
        ELSE IF In("javascript", text) \/ In("script", text)
        THEN "JavaScript Error"
        ELSE "Other Error"

\* _categorize_error
categorize_error(error_message) ==
    LET text == Chars(error_message)
        error_lower == lower(text)
    IN  IF In("timeout", error_lower) THEN "Timeout"
        ELSE IF In("network", error_lower) \/ In("connection", error_lower)
        THEN "Network Error"
        ELSE IF In("404", text) \/ In("not found", error_lower)
        THEN "404 Not Found"
        ELSE IF In("500", text) \/ In("server error", error_lower)
        THEN "Server Error"
        ELSE IF In("javascript", error_lower) \/ In("script", error_lower)
        THEN "JavaScript Error"
        ELSE "Other Error"

\* `not result['success'] and result['error_message']`: None and the empty
\* text are both falsy
IsCountedError(r) ==
    ~r.success /\ r.error_message # NoError /\ r.error_message # ""

\* _analyze_errors: the dict of the categories met, each with its count
analyze_errors(rs) ==
    LET counted == {i \in 1..Len(rs) : IsCountedError(rs[i])}
        types == {categorize_error(rs[i].error_message) : i \in counted}
    IN  [t \in types |->
            Cardinality({i \in counted :
                            categorize_error(rs[i].error_message) = t})]

\* _create_empty_result
create_empty_result ==
    [start_time |-> 0, end_time |-> 0, duration |-> 0,
     total_requests |-> 0, successful_requests |-> 0, failed_requests |-> 0,
     success_rate |-> RatInt(0),
     avg_response_time |-> RatInt(0), min_response_time |-> 0,
     max_response_time |-> 0,
     p50_response_time |-> RatInt(0), p90_response_time |-> RatInt(0),
     p95_response_time |-> RatInt(0), p99_response_time |-> RatInt(0),
     requests_per_second |-> RatInt(0), peak_rps |-> 0,
     average_rps |-> RatInt(0), error_rate |-> RatInt(0), errors |-> <<>>]

\* the failure count taken from the error messages instead of the success flags
count_failed_by_message(rs, n_total, n_successful) ==
    Len(SelectSeq(rs, LAMBDA r : r.error_message # NoError))

\* failed_requests = total_requests - successful_requests
count_failed(rs, n_total, n_successful) ==
    n_total - n_successful

\* response_times = [r['response_time'] for r in results
\*                   if r['success'] and r['response_time'] > 0]
response_times_of(rs) ==
    LET kept == SelectSeq(rs, IsTimed)
    IN  [i \in 1..Len(kept) |-> kept[i].response_time]

\* _calculate_results; st and et are self.start_time and self.end_time
calculate_results(rs, st, et) ==
    IF rs = <<>> THEN create_empty_result
    ELSE
    LET n_total == Len(rs)
        n_successful == Len(SelectSeq(rs, IsSuccess))
        n_failed == count_failed(rs, n_total, n_successful)
        success_rate == IF n_total > 0
                        THEN RatMul(Rat(n_successful, n_total), RatInt(100))
                        ELSE RatInt(0)
        response_times == response_times_of(rs)
        has_times == response_times # <<>>
        \* truthiness of the two Optional[float] fields
        total_duration == IF et # NoTime /\ et # 0 /\ st # NoTime /\ st # 0
                          THEN et - st ELSE 0
        requests_per_second ==
            IF total_duration > 0
            THEN Rat(n_total * TicksPerSecond, total_duration)
            ELSE RatInt(0)
    IN
    [start_time |-> IF st = NoTime THEN 0 ELSE st,
     end_time |-> IF et = NoTime THEN 0 ELSE et,
     duration |-> total_duration,
     total_requests |-> n_total,
     successful_requests |-> n_successful,
     failed_requests |-> n_failed,
     success_rate |-> success_rate,
     avg_response_time |-> IF has_times
                           THEN Rat(SeqSum(response_times), Len(response_times))
                           ELSE RatInt(0),
     min_response_time |-> IF has_times THEN SetMin(SeqToSet(response_times)) ELSE 0,
     max_response_time |-> IF has_times THEN SetMax(SeqToSet(response_times)) ELSE 0,
     p50_response_time |-> IF has_times THEN percentile(response_times, 50) ELSE RatInt(0),
     p90_response_time |-> IF has_times THEN percentile(response_times, 90) ELSE RatInt(0),
     p95_response_time |-> IF has_times THEN percentile(response_times, 95) ELSE RatInt(0),
     p99_response_time |-> IF has_times THEN percentile(response_times, 99) ELSE RatInt(0),
     requests_per_second |-> requests_per_second,
     peak_rps |-> calculate_peak_rps(rs),
     average_rps |-> requests_per_second,
     error_rate |-> IF n_total > 0
                    THEN RatMul(Rat(n_failed, n_total), RatInt(100))
                    ELSE RatInt(0),
     errors |-> analyze_errors(rs)]


\* ========================================================== configuration
\* dict.get(key, default)
Get(d, key, default) == IF key \in DOMAIN d THEN d[key] ELSE default

\* a profiler for which either gate of a tier is enough
get_system_specs_either_gate(cpu_count, memory_gb) ==
    IF cpu_count >= 16 \/ memory_gb >= 32
    THEN [cpu_count |-> cpu_count, memory_gb |-> memory_gb, scale |-> "large",
          max_recommended_vu |-> 10000, max_recommended_rps |-> 25000]
    ELSE IF cpu_count >= 8 \/ memory_gb >= 16
    THEN [cpu_count |-> cpu_count, memory_gb |-> memory_gb, scale |-> "medium",
          max_recommended_vu |-> 5000, max_recommended_rps |-> 10000]
    ELSE [cpu_count |-> cpu_count, memory_gb |-> memory_gb, scale |-> "small",
          max_recommended_vu |-> 1000, max_recommended_rps |-> 1000]

\* _get_system_specs
get_system_specs(cpu_count, memory_gb) ==
    IF cpu_count >= 16 /\ memory_gb >= 32
    THEN [cpu_count |-> cpu_count, memory_gb |-> memory_gb, scale |-> "large",
          max_recommended_vu |-> 10000, max_recommended_rps |-> 25000]
    ELSE IF cpu_count >= 8 /\ memory_gb >= 16
    THEN [cpu_count |-> cpu_count, memory_gb |-> memory_gb, scale |-> "medium",
          max_recommended_vu |-> 5000, max_recommended_rps |-> 10000]
    ELSE [cpu_count |-> cpu_count, memory_gb |-> memory_gb, scale |-> "small",
          max_recommended_vu |-> 1000, max_recommended_rps |-> 1000]

\* the machine of the modelled runs: 4 logical CPUs, 8 GB
RunMachine == [cpu_count |-> 4, memory_gb |-> 8]
RunHost == get_system_specs(RunMachine.cpu_count, RunMachine.memory_gb)


\* entries of config.thread_groups: dicts that name their user count and may
\* switch their own ramp-up off; every other key falls back to the config
GroupDicts ==
    [virtual_users : 1..MaxSims]
        \cup [virtual_users : 1..MaxSims, ramp_up_seconds : {0}]

RECURSIVE TotalUsers(_)
TotalUsers(tg) ==
    IF tg = <<>> THEN 0 ELSE Head(tg).virtual_users + TotalUsers(Tail(tg))

\* thread-group lists of at most MaxSims users in all; only a group that
\* follows another one overrides its ramp-up
ThreadGroupLists ==
    {tg \in UNION {[1..n -> GroupDicts] : n \in 1..MaxSims} :
        /\ TotalUsers(tg) <= MaxSims
        /\ \A i \in 1..Len(tg) : "ramp_up_seconds" \in DOMAIN tg[i] => i = 2}

\* the timing fields: each is zero or not, and at most one of them is zero.
\* think_time_seconds is a float and is held in ticks; the int fields are
\* held in seconds.
Timings ==
    {t \in [duration_seconds : 0..1, ramp_up_seconds : 0..1,
            ramp_down_seconds : 0..1, think_time_ticks : 0..1] :
        t.duration_seconds + t.ramp_up_seconds + t.ramp_down_seconds
            + t.think_time_ticks >= 3}

\* LoadGeneratorConfig values of the modelled runs
Configs ==
    LET rest == [max_concurrent_browsers : 1..MaxSims,
                 enable_resource_monitoring : BOOLEAN]
        shape == [virtual_users : (0..MaxSims) \cup {RunHost.max_recommended_vu + 1},
                  thread_groups : {<<>>}]
                 \cup [virtual_users : 0..MaxSims, thread_groups : ThreadGroupLists]
    IN  {[virtual_users |-> sh.virtual_users,
          thread_groups |-> sh.thread_groups,
          duration_seconds |-> t.duration_seconds,
          ramp_up_seconds |-> t.ramp_up_seconds,
          ramp_down_seconds |-> t.ramp_down_seconds,
          think_time_ticks |-> t.think_time_ticks,
          max_concurrent_browsers |-> r.max_concurrent_browsers,
          enable_resource_monitoring |-> r.enable_resource_monitoring]
         : sh \in shape, t \in Timings, r \in rest}

\* what psutil.cpu_percent(interval=1) and psutil.virtual_memory().percent
\* may report: each limit itself and the value next above it
CpuSamples == {max_cpu_usage_percent, max_cpu_usage_percent + 1}
MemorySamples == {max_memory_usage_percent, max_memory_usage_percent + 1}
\* nothing was read: the virtual-user check raised first, or no check ran
NoSample == [cpu_percent |-> 0, memory_percent |-> 0]

\* _validate_system_capacity with every bound inclusive of rejection
validate_system_capacity_strict(cpu_percent, memory_percent) ==
    /\ config.virtual_users < system_specs.max_recommended_vu
    /\ cpu_percent < max_cpu_usage_percent
    /\ memory_percent < max_memory_usage_percent

\* _validate_system_capacity
validate_system_capacity(cpu_percent, memory_percent) ==
    /\ ~(config.virtual_users > system_specs.max_recommended_vu)
    /\ ~(cpu_percent > max_cpu_usage_percent)
    /\ ~(memory_percent > max_memory_usage_percent)

\* _create_thread_groups
create_thread_groups ==
    IF config.thread_groups # <<>> THEN config.thread_groups
    ELSE << [virtual_users |-> config.virtual_users,
             ramp_up_seconds |-> config.ramp_up_seconds,
             duration_seconds |-> config.duration_seconds,
             ramp_down_seconds |-> config.ramp_down_seconds,
             think_time_ticks |-> config.think_time_ticks] >>

\* group ids are those of enumerate(thread_groups): 0, 1, ...
GroupIds == 0..(Len(create_thread_groups) - 1)
GroupConfig(g) == create_thread_groups[g + 1]

\* the locals of _execute_thread_group
GroupUsers(g) == Get(GroupConfig(g), "virtual_users", config.virtual_users)
GroupRampUp(g) == Get(GroupConfig(g), "ramp_up_seconds", config.ramp_up_seconds)
GroupDuration(g) == Get(GroupConfig(g), "duration_seconds", config.duration_seconds)
GroupRampDown(g) == Get(GroupConfig(g), "ramp_down_seconds", config.ramp_down_seconds)
GroupThink(g) == Get(GroupConfig(g), "think_time_ticks", config.think_time_ticks)

\* a semaphore with one permit for each user of the group
semaphore_size_uncapped(g) == GroupUsers(g)

\* asyncio.Semaphore(min(virtual_users, self.config.max_concurrent_browsers))
semaphore_size(g) == Min2(GroupUsers(g), config.max_concurrent_browsers)

Secs(n) == n * TicksPerSecond
CeilDiv(a, b) == (a + b - 1) \div b

\* ============================================================ the run model
SimIds == DOMAIN sims
GroupOf(s) == s[1]
UserOf(s) == s[2]

NoSim == [pc |-> "none", cancel |-> FALSE, request_id |-> 0, wake |-> 0,
          main_start |-> 0, req_start |-> 0]
SimTerminal == {"done", "raised", "cancelled"}
\* the suspension points at which a simulator holds its semaphore permit
SimHolding == {"ramp_up", "request", "think", "ramp_down"}
GroupTerminal == {"done", "cancelled"}
TaskTerminal == {"done", "raised", "cancelled"}

Holders(g) == {s \in SimIds : GroupOf(s) = g /\ sims[s].pc \in SimHolding}
AllHolders == {s \in SimIds : sims[s].pc \in SimHolding}
LiveSims == {s \in SimIds : sims[s].pc \notin SimTerminal}

\* what a call of _execute_request can return: success, or the failure of an
\* await before success is set, or the failure of an await after it
ErrTexts == {"Timeout 30000ms exceeded"}
ExecOutcomes ==
    {[success |-> TRUE, error_message |-> NoError]}
        \cup [success : BOOLEAN, error_message : ErrTexts]

NoResult == [total_requests |-> -1]
NoMonitor == [monitoring |-> FALSE, task |-> "none", cancel |-> FALSE,
              wake |-> 0, samples |-> 0]
\* no call of _execute_request is followed step by step
NoExec == [pc |-> "none"]

RunInit ==
    /\ config \in Configs
    /\ system_specs = RunHost
    /\ now = 1
    /\ opc = "idle"
    /\ start_time = NoTime
    /\ end_time = NoTime
    /\ results = <<>>
    /\ active_users = 0
    /\ completed_requests = 0
    /\ failed_requests = 0
    /\ groups = <<>>
    /\ sims = <<>>
    /\ monitor = NoMonitor
    /\ pending = "none"
    /\ ext_cancel = "none"
    /\ result = NoResult
    /\ exec = NoExec
    /\ sampled = NoSample
    /\ host = RunMachine
    /\ peak_rps = RatInt(0)
    /\ crawl = NoCrawl
    /\ stress = NoStress
    /\ runs = 0
    /\ progress_task = NoProgressTask
    /\ progress = NoProgress

\* ---------------------------------------------------------- run_load_test
\* run_load_test up to its first suspension: validation, start_time,
\* ResourceMonitor.start_monitoring, and _execute_load_test up to gather()
RunLoadTest ==
    /\ opc = "idle"
    /\ runs' = runs + 1
    /\ \E cpu_percent \in CpuSamples, memory_percent \in MemorySamples :
        /\ sampled' = IF config.virtual_users > system_specs.max_recommended_vu
                      THEN NoSample
                      ELSE [cpu_percent |-> cpu_percent,
                            memory_percent |-> memory_percent]
        /\ IF ~validate_system_capacity(cpu_percent, memory_percent)
           THEN /\ opc' = "rejected"
                /\ UNCHANGED progress_task
                /\ pending' = "ValueError"
                /\ UNCHANGED <<start_time, monitor, groups>>
           ELSE /\ opc' = "running"
                /\ start_time' = now
                /\ monitor' = IF config.enable_resource_monitoring
                              THEN [NoMonitor EXCEPT !.monitoring = TRUE,
                                                     !.task = "running",
                                                     !.wake = now]
                              ELSE monitor
                /\ groups' = [g \in GroupIds |->
                                 [pc |-> "created", cancel |-> FALSE, sem |-> 0]]
                /\ progress_task' = IF progress_task.callback
                                    THEN [progress_task EXCEPT !.pc = "created",
                                                               !.wake = now]
                                    ELSE progress_task
                /\ UNCHANGED pending
    /\ UNCHANGED <<crawl, stress, exec, host, peak_rps, progress, config, system_specs, now,
                   end_time, results, active_users,
                   completed_requests, failed_requests, sims, ext_cancel, result>>

\* ------------------------------------------------- _execute_thread_group
\* one simulator for each of config.virtual_users, whatever the group says
user_ids_of_config(g) == 0..(config.virtual_users - 1)

\* for user_id in range(virtual_users)
user_ids(g) == 0..(GroupUsers(g) - 1)

\* the group task from its start to gather(): the semaphore and the tasks
GroupStart(g) ==
    /\ opc = "running"
    /\ groups[g].pc = "created"
    /\ ~groups[g].cancel
    /\ groups' = [groups EXCEPT ![g].pc = "joining", ![g].sem = semaphore_size(g)]
    /\ sims' = sims @@ [s \in {g} \X user_ids(g) |->
                           [NoSim EXCEPT !.pc = "waiting"]]
    /\ UNCHANGED <<progress_task, runs, crawl, stress, exec, sampled, host, peak_rps, progress, config, system_specs,
                   now, opc, start_time, end_time, results,
                   active_users, completed_requests, failed_requests, monitor,
                   pending, ext_cancel, result>>

\* a gather that ends as soon as one awaited task has raised
gather_done_first_exception(g) ==
    \/ \A s \in SimIds : GroupOf(s) = g => sims[s].pc \in SimTerminal
    \/ \E s \in SimIds : GroupOf(s) = g /\ sims[s].pc = "raised"

\* asyncio.gather(*tasks, return_exceptions=True) of the group is complete
gather_done(g) ==
    \A s \in SimIds : GroupOf(s) = g => sims[s].pc \in SimTerminal

\* the group task resumes from gather(): it returns, or, when it was
\* cancelled, ends cancelled once its children have ended; a group task
\* cancelled before its first step never runs
GroupJoin(g) ==
    /\ groups[g].pc \in {"created", "joining"}
    /\ groups[g].pc = "created" => groups[g].cancel
    /\ groups[g].pc = "joining" => gather_done(g)
    /\ groups' = [groups EXCEPT ![g].pc = IF groups[g].cancel THEN "cancelled"
                                          ELSE "done",
                                ![g].cancel = FALSE]
    /\ UNCHANGED <<progress_task, runs, crawl, stress, exec, sampled, host, peak_rps, progress, config, system_specs,
                   now, opc, start_time, end_time, results,
                   active_users, completed_requests, failed_requests, sims,
                   monitor, pending, ext_cancel, result>>

\* ------------------------------------------------ _simulate_virtual_user
Finished(how) == [NoSim EXCEPT !.pc = how]

\* ramp_delay = (user_id / self.config.virtual_users) * ramp_up, in ticks,
\* as the first tick at which asyncio.sleep(ramp_delay) can be over
RampDelayTicks(g, u) ==
    CeilDiv(u * Secs(GroupRampUp(g)), config.virtual_users)

\* the test of the while loop and what follows it up to the next suspension:
\* _execute_request is entered (its start_time is read), or the ramp-down
\* sleep starts, or the coroutine leaves its try and its async-with
loop_check(g, sm) ==
    IF now - sm.main_start < Secs(GroupDuration(g))
    THEN [sm EXCEPT !.pc = "request", !.req_start = now, !.wake = 0]
    ELSE IF GroupRampDown(g) > 0
    THEN [NoSim EXCEPT !.pc = "ramp_down",
                       !.wake = now + Secs(GroupRampDown(g))]
    ELSE Finished("done")

\* a simulator that gives up its loop when a request has failed
after_request_stop_on_failure(g, sm, o) ==
    IF o.success
    THEN [sm EXCEPT !.pc = "think", !.wake = now + GroupThink(g), !.req_start = 0]
    ELSE IF GroupRampDown(g) > 0
    THEN [NoSim EXCEPT !.pc = "ramp_down",
                       !.wake = now + Secs(GroupRampDown(g))]
    ELSE Finished("done")

\* after the outcome o is appended and counted: the think-time sleep and the
\* 10 ms pause, one suspension of think_time (the pause is below one tick)
after_request(g, sm, o) ==
    [sm EXCEPT !.pc = "think", !.wake = now + GroupThink(g), !.req_start = 0]

\* a simulator without the finally and without the scoped acquisition: only
\* the normal end gives the permit back
Leave_at_normal_end(s, new, entered) ==
    LET g == GroupOf(s)
        inc == IF entered THEN 1 ELSE 0
        dec == IF new.pc = "done" THEN 1 ELSE 0
    IN  /\ sims' = [sims EXCEPT ![s] = new]
        /\ active_users' = active_users + inc - dec
        /\ groups' = [groups EXCEPT ![g].sem = @ - inc + dec]

\* a simulator that acquires the semaphore and never releases it
Leave_keeps_permit(s, new, entered) ==
    LET g == GroupOf(s)
        inc == IF entered THEN 1 ELSE 0
        dec == IF new.pc \in SimTerminal THEN 1 ELSE 0
    IN  /\ sims' = [sims EXCEPT ![s] = new]
        /\ active_users' = active_users + inc - dec
        /\ groups' = [groups EXCEPT ![g].sem = @ - inc]

\* the finally of the try and the exit of `async with semaphore`, when the
\* step ends the coroutine; entered tells whether this step did the acquire
Leave(s, new, entered) ==
    LET g == GroupOf(s)
        inc == IF entered THEN 1 ELSE 0
        dec == IF new.pc \in SimTerminal THEN 1 ELSE 0
    IN  /\ sims' = [sims EXCEPT ![s] = new]
        /\ active_users' = active_users + inc - dec
        /\ groups' = [groups EXCEPT ![g].sem = @ - inc + dec]

\* the task acquires the semaphore and runs to its first suspension
SimAcquire(s) ==
    LET g == GroupOf(s)
        u == UserOf(s)
        sm == [NoSim EXCEPT !.main_start = now]
    IN  /\ sims[s].pc = "waiting"
        /\ ~sims[s].cancel
        /\ groups[g].sem > 0
        /\ IF GroupRampUp(g) > 0
           THEN IF config.virtual_users = 0
                THEN Leave(s, Finished("raised"), TRUE)   \* ZeroDivisionError
                ELSE Leave(s, [NoSim EXCEPT !.pc = "ramp_up",
                                            !.wake = now + RampDelayTicks(g, u)],
                           TRUE)
           ELSE Leave(s, loop_check(g, sm), TRUE)
        /\ UNCHANGED <<progress_task, runs, crawl, stress, exec, sampled, host, peak_rps, progress, config, system_specs,
                   now, opc, start_time, end_time,
                       results, completed_requests, failed_requests, monitor,
                       pending, ext_cancel, result>>

\* the ramp-up sleep is over: main_start is read and the loop is entered
SimRampUpOver(s) ==
    LET g == GroupOf(s)
        sm == [NoSim EXCEPT !.main_start = now]
    IN  /\ sims[s].pc = "ramp_up"
        /\ ~sims[s].cancel
        /\ now >= sims[s].wake
        /\ Leave(s, loop_check(g, sm), FALSE)
        /\ UNCHANGED <<progress_task, runs, crawl, stress, exec, sampled, host, peak_rps, progress, config, system_specs,
                   now, opc, start_time, end_time,
                       results, completed_requests, failed_requests, monitor,
                       pending, ext_cancel, result>>

\* a failure counter that goes by the error text of the outcome
failed_after_by_message(r) ==
    IF r.error_message = NoError THEN failed_requests ELSE failed_requests + 1

\* if result['success']: self.completed_requests += 1
\* else: self.failed_requests += 1
completed_after(r) ==
    IF r.success THEN completed_requests + 1 ELSE completed_requests
failed_after(r) ==
    IF r.success THEN failed_requests ELSE failed_requests + 1

\* _execute_request returns: the outcome is appended and counted.  (A request
\* may take up to timeout_seconds, longer than the modelled window: at most
\* MaxResults requests return within it.)
RequestReturns(s) ==
    LET g == GroupOf(s)
        sm == sims[s]
    IN  /\ sm.pc = "request"
        /\ ~sm.cancel
        /\ \E o \in ExecOutcomes :
            LET r == Outcome(g, UserOf(s), sm.request_id, sm.req_start, now,
                             o.success, o.error_message,
                             IF o.success THEN now - sm.req_start ELSE 0)
            IN  /\ results' = Append(results, r)
                /\ completed_requests' = completed_after(r)
                /\ failed_requests' = failed_after(r)
                /\ Leave(s, after_request(g, sm, r), FALSE)
        /\ UNCHANGED <<progress_task, runs, crawl, stress, exec, sampled, host, peak_rps, progress, config, system_specs,
                   now, opc, start_time, end_time,
                       monitor, pending, ext_cancel, result>>

SimRequestReturns(s) ==
    /\ Len(results) < MaxResults
    /\ RequestReturns(s)

\* a loop that does not count its requests
same_request_id(request_id) == request_id

\* request_id += 1
next_request_id(request_id) == request_id + 1

\* the think-time sleep and the pause are over: request_id += 1 and the
\* loop test
SimThinkOver(s) ==
    LET g == GroupOf(s)
        sm == [sims[s] EXCEPT !.request_id = next_request_id(@)]
    IN  /\ sims[s].pc = "think"
        /\ ~sims[s].cancel
        /\ now >= sims[s].wake
        /\ Leave(s, loop_check(g, sm), FALSE)
        /\ UNCHANGED <<progress_task, runs, crawl, stress, exec, sampled, host, peak_rps, progress, config, system_specs,
                   now, opc, start_time, end_time,
                       results, completed_requests, failed_requests, monitor,
                       pending, ext_cancel, result>>

\* the ramp-down sleep is over: finally, and the permit is released
SimRampDownOver(s) ==
    /\ sims[s].pc = "ramp_down"
    /\ ~sims[s].cancel
    /\ now >= sims[s].wake
    /\ Leave(s, Finished("done"), FALSE)
    /\ UNCHANGED <<progress_task, runs, crawl, stress, exec, sampled, host, peak_rps, progress, config, system_specs,
                   now, opc, start_time, end_time,
                   results, completed_requests, failed_requests, monitor,
                   pending, ext_cancel, result>>

\* CancelledError is thrown into the task at its suspension point: finally
\* and the release run if it was inside the async-with
SimCancelled(s) ==
    LET g == GroupOf(s)
        held == sims[s].pc \in SimHolding
    IN  /\ sims[s].pc \notin SimTerminal
        /\ sims[s].cancel
        /\ sims' = [sims EXCEPT ![s] = Finished("cancelled")]
        /\ active_users' = IF held THEN active_users - 1 ELSE active_users
        /\ groups' = [groups EXCEPT ![g].sem = IF held THEN @ + 1 ELSE @]
        /\ UNCHANGED <<progress_task, runs, crawl, stress, exec, sampled, host, peak_rps, progress, config, system_specs,
                   now, opc, start_time, end_time,
                       results, completed_requests, failed_requests, monitor,
                       pending, ext_cancel, result>>

\* ------------------------------------------------------- ResourceMonitor
\* one turn of the loop of _monitor_resources: the two psutil samples are
\* appended and sleep(1.0) starts, or a sampling call raises and the task
\* ends with that exception
MonitorSample ==
    /\ monitor.task = "running"
    /\ ~monitor.cancel
    /\ now >= monitor.wake
    /\ IF monitor.monitoring
       THEN \/ monitor' = [monitor EXCEPT !.samples = @ + 1,
                                          !.wake = now + Secs(1)]
            \/ monitor' = [monitor EXCEPT !.task = "raised", !.wake = 0]
       ELSE monitor' = [monitor EXCEPT !.task = "done", !.wake = 0]
    /\ UNCHANGED <<progress_task, runs, crawl, stress, exec, sampled, host, peak_rps, progress, config, system_specs,
                   now, opc, start_time, end_time, results,
                   active_users, completed_requests, failed_requests, groups,
                   sims, pending, ext_cancel, result>>

\* CancelledError is thrown into the monitor task
MonitorCancelled ==
    /\ monitor.task = "running"
    /\ monitor.cancel
    /\ monitor' = [monitor EXCEPT !.task = "cancelled", !.cancel = FALSE,
                                  !.wake = 0]
    /\ UNCHANGED <<progress_task, runs, crawl, stress, exec, sampled, host, peak_rps, progress, config, system_specs,
                   now, opc, start_time, end_time, results,
                   active_users, completed_requests, failed_requests, groups,
                   sims, pending, ext_cancel, result>>

\* a stop_monitoring that does not wait for the task it cancelled
monitor_task_not_awaited == TRUE

\* `await self.monitor_task` of stop_monitoring can go on: the task is done
monitor_task_over == monitor.task \in TaskTerminal

\* ------------------------------------------- run_load_test, after gather
\* asyncio.gather(*tasks, return_exceptions=True) of _execute_load_test is
\* complete: every thread-group task has ended
scheduler_done ==
    \A g \in DOMAIN groups : groups[g].pc \in GroupTerminal

\* an await of the progress task that takes any end of it for its
\* cancellation
awaited_progress_task_swallowed == "none"

\* `await progress_task` after progress_task.cancel(): the exception the
\* task ended with is raised, its cancellation is passed over
awaited_progress_task ==
    IF progress_task.pc = "raised" THEN "CallbackError" ELSE "none"

\* gather() of _execute_load_test is over (it raises CancelledError when the
\* run was cancelled); the finally of run_load_test records end_time and
\* calls stop_monitoring(), which suspends on the monitor task unless that
\* task has already ended; without a suspension the method runs to its end
ExecuteLoadTestOver ==
    LET thrown == IF ext_cancel \in {"running", "drained"}
                  THEN "CancelledError"
                  ELSE awaited_progress_task
    IN  /\ opc = "running"
        /\ scheduler_done
        /\ progress_task.pc \in {"none"} \cup TaskTerminal
        /\ end_time' = now
        /\ IF monitor.task = "running"
           THEN /\ monitor' = [monitor EXCEPT !.monitoring = FALSE,
                                              !.cancel = TRUE]
                /\ opc' = "stopping"
                /\ pending' = thrown
                /\ UNCHANGED result
           ELSE /\ monitor' = [monitor EXCEPT !.monitoring = FALSE]
                /\ IF monitor.task = "raised"
                   THEN /\ opc' = "raised"
                        /\ pending' = "SamplingError"
                        /\ UNCHANGED result
                   ELSE IF thrown # "none"
                   THEN /\ opc' = "raised"
                        /\ pending' = thrown
                        /\ UNCHANGED result
                   ELSE /\ opc' = "done"
                        /\ result' = calculate_results(results, start_time, now)
                        /\ UNCHANGED pending
        /\ UNCHANGED <<progress_task, runs, crawl, stress, exec, sampled, host, peak_rps, progress, config, system_specs,
                   now, start_time, results,
                       active_users, completed_requests, failed_requests, groups,
                       sims, ext_cancel>>

\* `await self.monitor_task` is over with CancelledError, which
\* stop_monitoring swallows; run_load_test re-raises what its try raised, or
\* returns _calculate_results()
StopMonitoringOver ==
    /\ opc = "stopping"
    /\ monitor_task_over
    /\ IF pending # "none"
       THEN /\ opc' = "raised"
            /\ UNCHANGED result
       ELSE /\ opc' = "done"
            /\ result' = calculate_results(results, start_time, end_time)
    /\ UNCHANGED <<progress_task, runs, crawl, stress, exec, sampled, host, peak_rps, progress, config, system_specs,
                   now, start_time, end_time, results,
                   active_users, completed_requests, failed_requests, groups,
                   sims, monitor, pending, ext_cancel>>

\* ------------------------------------------------------------ the caller
\* asyncio.wait_for times out, or the task of run_load_test is cancelled.
\* While run_load_test waits in gather(), the cancellation goes to every
\* thread-group task and, through each group's gather(), to every simulator
\* task; while it waits in stop_monitoring() the CancelledError is swallowed
\* there.
Cancel ==
    /\ ext_cancel = "none"
    /\ opc \in {"running", "stopping"}
    /\ ext_cancel' = IF opc = "stopping" THEN "stopping"
                     ELSE IF LiveSims # {} THEN "running" ELSE "drained"
    /\ IF opc = "running"
       THEN /\ groups' = [g \in DOMAIN groups |->
                            IF groups[g].pc \in GroupTerminal THEN groups[g]
                            ELSE [groups[g] EXCEPT !.cancel = TRUE]]
            /\ sims' = [s \in SimIds |->
                            IF sims[s].pc \in SimTerminal THEN sims[s]
                            ELSE [sims[s] EXCEPT !.cancel = TRUE]]
       ELSE UNCHANGED <<groups, sims>>
    /\ UNCHANGED <<progress_task, runs, crawl, stress, exec, sampled, host, peak_rps, progress, config, system_specs,
                   now, opc, start_time, end_time, results,
                   active_users, completed_requests, failed_requests, monitor,
                   pending, result>>

\* a task that the event loop can run now
SimReady(s) ==
    \/ sims[s].pc \notin SimTerminal /\ sims[s].cancel
    \/ sims[s].pc = "waiting" /\ groups[GroupOf(s)].sem > 0
    \/ sims[s].pc \in {"ramp_up", "think", "ramp_down"} /\ now >= sims[s].wake
GroupReady(g) ==
    \/ groups[g].pc = "created"
    \/ groups[g].pc = "joining" /\ gather_done(g)
MonitorReady ==
    monitor.task = "running" /\ (monitor.cancel \/ now >= monitor.wake)
RunReady ==
    \/ opc = "running" /\ scheduler_done
    \/ opc = "stopping" /\ monitor_task_over

\* time passes.  The event loop runs every task that is ready before it
\* waits again, so the clock moves on only when every task is suspended on
\* a timer that is not due or on the browser.
Tick ==
    /\ opc \in {"running", "stopping"}
    /\ now < 1 + MaxTime
    /\ ~RunReady
    /\ ~MonitorReady
    /\ \A g \in DOMAIN groups : ~GroupReady(g)
    /\ \A s \in SimIds : ~SimReady(s)
    /\ now' = now + 1
    /\ UNCHANGED <<progress_task, runs, crawl, stress, exec, sampled, host, peak_rps, progress, config, system_specs,
                   opc, start_time, end_time, results,
                   active_users, completed_requests, failed_requests, groups,
                   sims, monitor, pending, ext_cancel, result>>

Next ==
    \/ RunLoadTest
    \/ \E g \in DOMAIN groups : GroupStart(g)
    \/ \E g \in DOMAIN groups : GroupJoin(g)
    \/ \E s \in SimIds : SimAcquire(s)
    \/ \E s \in SimIds : SimRampUpOver(s)
    \/ \E s \in SimIds : SimRequestReturns(s)
    \/ \E s \in SimIds : SimThinkOver(s)
    \/ \E s \in SimIds : SimRampDownOver(s)
    \/ \E s \in SimIds : SimCancelled(s)
    \/ MonitorSample
    \/ MonitorCancelled
    \/ ExecuteLoadTestOver
    \/ StopMonitoringOver
    \/ Cancel
    \/ Tick

Spec == RunInit /\ [][Next]_vars

\* ------------------------------------------ runs that nobody cancels
\* The same run with no caller that cancels it and no end of the window: a
\* call of _execute_request launches a browser and returns after at least
\* one tick and at most MaxRequestTicks.
LiveInit == RunInit

LiveRequestReturns(s) ==
    /\ sims[s].pc = "request"
    /\ now > sims[s].req_start
    /\ RequestReturns(s)

\* time passes while every task is suspended and no request is overdue
LiveTick ==
    /\ opc \in {"running", "stopping"}
    /\ ~RunReady
    /\ ~MonitorReady
    /\ \A g \in DOMAIN groups : ~GroupReady(g)
    /\ \A s \in SimIds : ~SimReady(s)
    /\ \A s \in SimIds :
        sims[s].pc = "request" => now - sims[s].req_start < MaxRequestTicks
    /\ now' = now + 1
    /\ UNCHANGED <<progress_task, runs, crawl, stress, exec, sampled, host, peak_rps, progress, config, system_specs,
                   opc, start_time, end_time, results,
                   active_users, completed_requests, failed_requests, groups,
                   sims, monitor, pending, ext_cancel, result>>

LiveNext ==
    \/ RunLoadTest
    \/ \E g \in DOMAIN groups : GroupStart(g)
    \/ \E g \in DOMAIN groups : GroupJoin(g)
    \/ \E s \in SimIds : SimAcquire(s)
    \/ \E s \in SimIds : SimRampUpOver(s)
    \/ \E s \in SimIds : LiveRequestReturns(s)
    \/ \E s \in SimIds : SimThinkOver(s)
    \/ \E s \in SimIds : SimRampDownOver(s)
    \/ MonitorSample
    \/ MonitorCancelled
    \/ ExecuteLoadTestOver
    \/ StopMonitoringOver
    \/ LiveTick

\* the event loop runs a task whenever one is ready and sleeps otherwise
LiveSpec == LiveInit /\ [][LiveNext]_vars /\ WF_vars(LiveNext)

\* --------------------------------------- a generator that is run again
\* one user in the default thread group
RerunConfigs ==
    {c \in Configs : /\ c.thread_groups = <<>>
                     /\ c.virtual_users = 1
                     /\ c.max_concurrent_browsers = 1}

RerunInit ==
    /\ RunInit
    /\ config \in RerunConfigs

\* run_load_test is called again on the generator whose run has returned,
\* up to its first suspension.  Nothing of the generator is assigned but
\* start_time; the ResourceMonitor keeps its samples and gets a new task;
\* the tasks of the run before are gone.
RunLoadTestAgain ==
    /\ opc = "done"
    /\ runs < MaxRuns
    /\ runs' = runs + 1
    /\ \E cpu_percent \in CpuSamples, memory_percent \in MemorySamples :
        /\ sampled' = [cpu_percent |-> cpu_percent,
                       memory_percent |-> memory_percent]
        /\ IF ~validate_system_capacity(cpu_percent, memory_percent)
           THEN /\ opc' = "rejected"
                /\ UNCHANGED progress_task
                /\ pending' = "ValueError"
                /\ UNCHANGED <<start_time, monitor, groups, sims>>
           ELSE /\ opc' = "running"
                /\ start_time' = now
                /\ monitor' = IF config.enable_resource_monitoring
                              THEN [monitor EXCEPT !.monitoring = TRUE,
                                                   !.task = "running",
                                                   !.wake = now]
                              ELSE monitor
                /\ groups' = [g \in GroupIds |->
                                 [pc |-> "created", cancel |-> FALSE, sem |-> 0]]
                /\ sims' = <<>>
                /\ progress_task' = IF progress_task.callback
                                    THEN [progress_task EXCEPT !.pc = "created",
                                                               !.wake = now]
                                    ELSE progress_task
                /\ UNCHANGED pending
    /\ UNCHANGED <<crawl, stress, exec, host, peak_rps, progress, config, system_specs, now,
                   end_time, results, active_users,
                   completed_requests, failed_requests, ext_cancel, result>>

RerunNext ==
    \/ LiveNext
    \/ RunLoadTestAgain

RerunSpec == RerunInit /\ [][RerunNext]_vars

\* ===================================================== _execute_request
\* One call of _execute_request, await by await.  browser is the handle of
\* chromium.launch(); launched and closed count the provider's launch() and
\* browser.close() calls that went through.
ExecAwaits == {"playwright_start", "launch", "new_context", "new_page", "goto",
               "page_close", "context_close", "browser_close",
               "playwright_exit"}
\* the awaits inside `async with async_playwright() as p`
ExecInside == ExecAwaits \ {"playwright_start", "playwright_exit"}

ExecArgs == [group_id : 0..1, user_id : 0..1, request_id : 0..1]

\* the state outside the call that ExecSpec keeps fixed
ExecConfig ==
    [virtual_users |-> 1, thread_groups |-> <<>>, duration_seconds |-> 1,
     ramp_up_seconds |-> 0, ramp_down_seconds |-> 0, think_time_ticks |-> 0,
     max_concurrent_browsers |-> 1, enable_resource_monitoring |-> FALSE]

ExecInit ==
    /\ config = ExecConfig
    /\ system_specs = RunHost
    /\ now = 1
    /\ opc = "running"
    /\ start_time = 1
    /\ end_time = NoTime
    /\ results = <<>>
    /\ active_users = 1
    /\ completed_requests = 0
    /\ failed_requests = 0
    /\ groups = <<>>
    /\ sims = <<>>
    /\ monitor = NoMonitor
    /\ pending = "none"
    /\ ext_cancel = "none"
    /\ result = NoResult
    /\ sampled = NoSample
    /\ host = RunMachine
    /\ peak_rps = RatInt(0)
    /\ crawl = NoCrawl
    /\ stress = NoStress
    /\ runs = 1
    /\ progress_task = NoProgressTask
    /\ progress = NoProgress
    /\ \E a \in ExecArgs :
        exec = [pc |-> "called", group_id |-> a.group_id, user_id |-> a.user_id,
                request_id |-> a.request_id, start_time |-> NoTime,
                success |-> FALSE, error_message |-> NoError,
                response_time |-> 0, browser |-> "none", launched |-> 0,
                closed |-> 0, raising |-> "none", failed_await |-> "none",
                cancelled |-> FALSE, returned |-> <<>>]

ExecFrame ==
    UNCHANGED <<config, system_specs, opc, start_time, end_time, results,
                active_users, completed_requests, failed_requests, groups, sims,
                monitor, pending, ext_cancel, result, sampled, host,
                peak_rps, progress, crawl, stress, runs, progress_task>>

\* the return statement: end_time is read and the dict is built
ExecReturn(e) ==
    [e EXCEPT !.pc = "returned",
              !.returned = <<Outcome(e.group_id, e.user_id, e.request_id,
                                     e.start_time, now, e.success,
                                     e.error_message, e.response_time)>>]

\* an await inside the async-with raises: the exception leaves the block
\* through the exit of async_playwright()
ExecRaise(e, at) ==
    [e EXCEPT !.pc = "playwright_exit", !.raising = "Exception",
              !.failed_await = at]

\* except Exception as e: error_message = str(e); success is left as it is
except_exception(e) ==
    [e EXCEPT !.error_message = CHOOSE t \in ErrTexts : TRUE,
              !.raising = "none"]

\* the call starts: start_time is read and async_playwright() is entered
ExecCall ==
    /\ exec.pc = "called"
    /\ exec' = [exec EXCEPT !.pc = "playwright_start", !.start_time = now]
    /\ UNCHANGED now
    /\ ExecFrame

\* async_playwright().__aenter__() is over; when it raises, no block was
\* entered and the except clause runs at once
ExecPlaywrightStart ==
    /\ exec.pc = "playwright_start"
    /\ \/ exec' = [exec EXCEPT !.pc = "launch"]
       \/ exec' = ExecReturn(except_exception(
                      [exec EXCEPT !.failed_await = "playwright_start"]))
    /\ UNCHANGED now
    /\ ExecFrame

\* p.chromium.launch(...) is over
ExecLaunch ==
    /\ exec.pc = "launch"
    /\ \/ exec' = [exec EXCEPT !.pc = "new_context", !.browser = "open",
                               !.launched = @ + 1]
       \/ exec' = ExecRaise(exec, "launch")
    /\ UNCHANGED now
    /\ ExecFrame

\* browser.new_context(...) is over
ExecNewContext ==
    /\ exec.pc = "new_context"
    /\ \/ exec' = [exec EXCEPT !.pc = "new_page"]
       \/ exec' = ExecRaise(exec, "new_context")
    /\ UNCHANGED now
    /\ ExecFrame

\* context.new_page() is over (set_default_timeout does not suspend)
ExecNewPage ==
    /\ exec.pc = "new_page"
    /\ \/ exec' = [exec EXCEPT !.pc = "goto"]
       \/ exec' = ExecRaise(exec, "new_page")
    /\ UNCHANGED now
    /\ ExecFrame

\* page.goto(...) is over: response_time is taken and success is set
ExecGoto ==
    /\ exec.pc = "goto"
    /\ \/ exec' = [exec EXCEPT !.pc = "page_close",
                               !.response_time = now - exec.start_time,
                               !.success = TRUE]
       \/ exec' = ExecRaise(exec, "goto")
    /\ UNCHANGED now
    /\ ExecFrame

\* page.close() is over
ExecPageClose ==
    /\ exec.pc = "page_close"
    /\ \/ exec' = [exec EXCEPT !.pc = "context_close"]
       \/ exec' = ExecRaise(exec, "page_close")
    /\ UNCHANGED now
    /\ ExecFrame

\* context.close() is over
ExecContextClose ==
    /\ exec.pc = "context_close"
    /\ \/ exec' = [exec EXCEPT !.pc = "browser_close"]
       \/ exec' = ExecRaise(exec, "context_close")
    /\ UNCHANGED now
    /\ ExecFrame

\* browser.close() is over; a close() that raises did not go through
ExecBrowserClose ==
    /\ exec.pc = "browser_close"
    /\ \/ exec' = [exec EXCEPT !.pc = "playwright_exit", !.browser = "closed",
                               !.closed = @ + 1]
       \/ exec' = ExecRaise(exec, "browser_close")
    /\ UNCHANGED now
    /\ ExecFrame

\* async_playwright().__aexit__() is over: what the block raised goes on to
\* the except clause (an Exception) or out of the call (CancelledError); an
\* Exception raised by the exit itself takes the place of either
ExecPlaywrightExit ==
    /\ exec.pc = "playwright_exit"
    /\ \/ exec' = IF exec.raising = "CancelledError"
                  THEN [exec EXCEPT !.pc = "cancelled"]
                  ELSE IF exec.raising = "Exception"
                  THEN ExecReturn(except_exception(exec))
                  ELSE ExecReturn(exec)
       \/ exec' = ExecReturn(except_exception(
                      [exec EXCEPT !.failed_await = "playwright_exit"]))
    /\ UNCHANGED now
    /\ ExecFrame

\* the simulator task is cancelled while the call is suspended:
\* CancelledError is no Exception, so no except clause of the call sees it
ExecCancelled ==
    /\ exec.pc \in ExecAwaits
    /\ ~exec.cancelled
    /\ exec' = IF exec.pc \in ExecInside
               THEN [exec EXCEPT !.pc = "playwright_exit",
                                 !.raising = "CancelledError",
                                 !.cancelled = TRUE]
               ELSE [exec EXCEPT !.pc = "cancelled", !.raising = "CancelledError",
                                 !.cancelled = TRUE]
    /\ UNCHANGED now
    /\ ExecFrame

\* time passes during the call
ExecTick ==
    /\ exec.pc \in ExecAwaits
    /\ now < 1 + MaxTime
    /\ now' = now + 1
    /\ UNCHANGED exec
    /\ ExecFrame

ExecNext ==
    \/ ExecCall
    \/ ExecPlaywrightStart
    \/ ExecLaunch
    \/ ExecNewContext
    \/ ExecNewPage
    \/ ExecGoto
    \/ ExecPageClose
    \/ ExecContextClose
    \/ ExecBrowserClose
    \/ ExecPlaywrightExit
    \/ ExecCancelled
    \/ ExecTick

ExecSpec == ExecInit /\ [][ExecNext]_vars

\* ============================= the reduction over synthetic result lists
\* Outcomes a run from st to et can hold: each starts within the run; a
\* call that set success took 0 (less than a tick), 1 or 2 ticks, and a
\* call whose teardown failed after that carries an error text as well
SyntheticOutcomes(st, et) ==
    {Outcome(0, 0, 0, t, t + k.response_time, k.success, k.error_message,
             k.response_time) :
        t \in st..et,
        k \in [success : {TRUE}, error_message : {NoError}, response_time : 0..2]
              \cup [success : {TRUE}, error_message : ErrTexts, response_time : {1}]
              \cup [success : {FALSE}, error_message : ErrTexts, response_time : {0}]}

\* the generator just before `return self._calculate_results()`
StatsInit ==
    /\ config = ExecConfig
    /\ system_specs = RunHost
    /\ opc = "reducing"
    /\ start_time \in 1..TicksPerSecond
    /\ end_time \in start_time..(start_time + MaxSpan)
    /\ now = end_time
    /\ results \in UNION {[1..n -> SyntheticOutcomes(start_time, end_time)] :
                             n \in 0..MaxOutcomes}
    /\ active_users = 0
    /\ completed_requests = Len(SelectSeq(results, IsSuccess))
    /\ failed_requests = Len(results) - completed_requests
    /\ groups = <<>>
    /\ sims = <<>>
    /\ monitor = NoMonitor
    /\ pending = "none"
    /\ ext_cancel = "none"
    /\ result = NoResult
    /\ exec = NoExec
    /\ sampled = NoSample
    /\ host = RunMachine
    /\ peak_rps = RatInt(0)
    /\ crawl = NoCrawl
    /\ stress = NoStress
    /\ runs = 1
    /\ progress_task = NoProgressTask
    /\ progress = NoProgress

\* return self._calculate_results()
CalculateResults ==
    /\ opc = "reducing"
    /\ result' = calculate_results(results, start_time, end_time)
    /\ opc' = "done"
    /\ UNCHANGED <<progress_task, runs, crawl, stress, exec, sampled, host, peak_rps, progress, config, system_specs,
                   now, start_time, end_time, results,
                   active_users, completed_requests, failed_requests, groups,
                   sims, monitor, pending, ext_cancel>>

StatsNext == CalculateResults

StatsSpec == StatsInit /\ [][StatsNext]_vars

\* ================================ the reduction over lists of failures
\* Outcomes with every modelled error text: a failure with its text (or with
\* none), a success, and a success whose teardown failed with a text
ErrorOutcomes(t) ==
    {Outcome(0, 0, 0, t, t, k.success, k.error_message, 0) :
        k \in [success : {FALSE}, error_message : ErrorTexts \cup {NoError}]
              \cup [success : {TRUE},
                    error_message : {NoError, "Timeout 30000ms exceeded"}]}

\* the generator just before `return self._calculate_results()`
ErrorInit ==
    /\ config = ExecConfig
    /\ system_specs = RunHost
    /\ opc = "reducing"
    /\ start_time = 1
    /\ end_time = 1 + TicksPerSecond
    /\ now = end_time
    /\ results \in UNION {[1..n -> ErrorOutcomes(start_time)] :
                             n \in 0..MaxErrOutcomes}
    /\ active_users = 0
    /\ completed_requests = Len(SelectSeq(results, IsSuccess))
    /\ failed_requests = Len(results) - completed_requests
    /\ groups = <<>>
    /\ sims = <<>>
    /\ monitor = NoMonitor
    /\ pending = "none"
    /\ ext_cancel = "none"
    /\ result = NoResult
    /\ exec = NoExec
    /\ sampled = NoSample
    /\ host = RunMachine
    /\ peak_rps = RatInt(0)
    /\ crawl = NoCrawl
    /\ stress = NoStress
    /\ runs = 1
    /\ progress_task = NoProgressTask
    /\ progress = NoProgress

ErrorSpec == ErrorInit /\ [][StatsNext]_vars

\* ================================================ the capacity profiler
\* the machines psutil may describe: cpu_count(logical=True) and
\* virtual_memory().total in whole GB
Machines == [cpu_count : 1..MaxCpus, memory_gb : 1..MaxMemoryGb]
\* no generator is constructed yet
NoSpecs == [scale |-> "none"]

ProfileInit ==
    /\ host \in Machines
    /\ system_specs = NoSpecs
    /\ opc = "new"
    /\ config = ExecConfig
    /\ now = 1
    /\ start_time = NoTime
    /\ end_time = NoTime
    /\ results = <<>>
    /\ active_users = 0
    /\ completed_requests = 0
    /\ failed_requests = 0
    /\ groups = <<>>
    /\ sims = <<>>
    /\ monitor = NoMonitor
    /\ pending = "none"
    /\ ext_cancel = "none"
    /\ result = NoResult
    /\ exec = NoExec
    /\ sampled = NoSample
    /\ peak_rps = RatInt(0)
    /\ crawl = NoCrawl
    /\ stress = NoStress
    /\ runs = 0
    /\ progress_task = NoProgressTask
    /\ progress = NoProgress

\* AdvancedLoadGenerator.__init__: self.system_specs = self._get_system_specs()
Construct ==
    /\ opc = "new"
    /\ system_specs' = get_system_specs(host.cpu_count, host.memory_gb)
    /\ opc' = "idle"
    /\ UNCHANGED <<progress_task, runs, crawl, stress, exec, sampled, host, peak_rps, progress, config, now,
                   start_time, end_time, results, active_users,
                   completed_requests, failed_requests, groups, sims, monitor,
                   pending, ext_cancel, result>>

ProfileNext == Construct

ProfileSpec == ProfileInit /\ [][ProfileNext]_vars

\* ====================================================== ProgressMonitor
\* The ProgressMonitor and the generator it watches.  The generator is the
\* one of the run model seen from outside: it starts, its counters and its
\* result list grow, and it ends by returning or by raising (an exception or
\* a cancellation), or it takes no further step at all.
\* ProgressMonitor.__init__
NewProgress(callback) ==
    [pc |-> "new", start_time |-> NoTime, is_monitoring |-> FALSE,
     update_callback |-> callback, progress_data |-> <<>>,
     task |-> "none", cancel |-> FALSE, wake |-> 0,
     stop |-> "none", stop_at |-> 0]

\* the suspension points of the task of _monitor_loop
ProgressSuspended == {"created", "callback", "sleep", "error_sleep"}
ProgressTerminal == {"done", "cancelled"}

\* the generators watched: duration_seconds of 0, 1 and 2
ProgressConfigs ==
    {[ExecConfig EXCEPT !.duration_seconds = d] : d \in 0..MaxProgressDuration}

ProgressInit ==
    /\ config \in ProgressConfigs
    /\ progress \in {NewProgress(cb) : cb \in BOOLEAN}
    /\ system_specs = RunHost
    /\ now = 1
    /\ opc = "idle"
    /\ start_time = NoTime
    /\ end_time = NoTime
    /\ results = <<>>
    /\ active_users = 0
    /\ completed_requests = 0
    /\ failed_requests = 0
    /\ groups = <<>>
    /\ sims = <<>>
    /\ monitor = NoMonitor
    /\ pending = "none"
    /\ ext_cancel = "none"
    /\ result = NoResult
    /\ exec = NoExec
    /\ sampled = NoSample
    /\ host = RunMachine
    /\ peak_rps = RatInt(0)
    /\ crawl = NoCrawl
    /\ stress = NoStress
    /\ runs = 0
    /\ progress_task = NoProgressTask

\* what no step of the ProgressMonitor is about
ProgressFrame ==
    UNCHANGED <<system_specs, groups, sims, monitor, pending, ext_cancel,
                result, exec, sampled, host, crawl, stress, runs,
                progress_task>>
\* the fields of the generator
GeneratorFields ==
    <<config, opc, start_time, end_time, results, active_users,
      completed_requests, failed_requests, peak_rps>>

\* ------------------------------------------------ the generator, watched
\* run_load_test passes validation and the simulator starts
GeneratorStarts ==
    /\ opc = "idle"
    /\ opc' = "running"
    /\ start_time' = now
    /\ active_users' = 1
    /\ UNCHANGED <<config, end_time, results, completed_requests,
                   failed_requests, peak_rps, now, progress>>
    /\ ProgressFrame

\* a request of the simulator returns: its outcome is appended and counted
GeneratorRequest ==
    /\ opc = "running"
    /\ Len(results) < MaxResults
    /\ \E ok \in BOOLEAN :
        /\ results' = Append(results,
               Outcome(0, 0, Len(results), now, now, ok,
                       IF ok THEN NoError ELSE CHOOSE t \in ErrTexts : TRUE, 0))
        /\ completed_requests' = completed_requests + (IF ok THEN 1 ELSE 0)
        /\ failed_requests' = failed_requests + (IF ok THEN 0 ELSE 1)
    /\ UNCHANGED <<config, opc, start_time, end_time, active_users, peak_rps,
                   now, progress>>
    /\ ProgressFrame

\* run_load_test is over: it returned, or it raised
GeneratorEnds ==
    /\ opc = "running"
    /\ opc' \in {"done", "raised"}
    /\ end_time' = now
    /\ active_users' = 0
    /\ UNCHANGED <<config, start_time, results, completed_requests,
                   failed_requests, peak_rps, now, progress>>
    /\ ProgressFrame

\* ------------------------------------------------------ start_monitoring
\* start_monitoring; it is called while the window still holds the whole
\* duration of the run
StartMonitoring ==
    /\ progress.pc = "new"
    /\ progress.stop = "none"
    /\ now + Secs(config.duration_seconds) <= 1 + MaxTime
    /\ progress' = [progress EXCEPT !.pc = "started", !.start_time = now,
                                    !.is_monitoring = TRUE,
                                    !.task = "created"]
    /\ UNCHANGED now
    /\ UNCHANGED GeneratorFields
    /\ ProgressFrame

\* --------------------------------------------------------- _monitor_loop
\* asyncio.sleep(1.0) from now on; the window ends at 1 + MaxTime
SleepUntil == Min2(now + Secs(1), 1 + MaxTime)

\* what an iteration writes to generator.peak_rps when it has computed
\* current_rps: a monitor that keeps the running maximum there
peak_rps_tracked(current_rps) == RatMax(peak_rps, current_rps)

\* what an iteration writes to generator.peak_rps: nothing, it reads it
peak_rps_after_snapshot(current_rps) == peak_rps

\* an exit test that looks at the percentage alone
test_complete_by_percent(progress_percent, elapsed_time, duration) ==
    RatLeq(RatInt(100), progress_percent)

\* if progress_percent >= 100.0 or elapsed_time >= duration_seconds
test_complete(progress_percent, elapsed_time, duration) ==
    RatLeq(RatInt(100), progress_percent) \/ elapsed_time >= duration

\* an except clause of the loop that catches the CancelledError as well:
\* the task logs it and sleeps
thrown_cancelled_caught(p) ==
    [p EXCEPT !.task = "error_sleep", !.cancel = FALSE, !.wake = SleepUntil]

\* CancelledError passes `except Exception` and ends the task
thrown_cancelled(p) ==
    [p EXCEPT !.task = "cancelled", !.cancel = FALSE, !.wake = 0]

\* the dict an iteration appends to progress_data
Snapshot(elapsed_time, progress_percent) ==
    LET duration == Secs(config.duration_seconds)
        done == completed_requests + failed_requests
    IN  [timestamp |-> now,
         elapsed_time |-> elapsed_time,
         progress_percent |-> progress_percent,
         active_users |-> active_users,
         completed_requests |-> completed_requests,
         failed_requests |-> failed_requests,
         success_rate |-> IF done > 0 THEN Rat(completed_requests * 100, done)
                          ELSE RatInt(0),
         current_rps |-> IF elapsed_time > 0
                         THEN Rat(completed_requests * TicksPerSecond,
                                  elapsed_time)
                         ELSE RatInt(0),
         peak_rps |-> peak_rps,
         estimated_completion |-> IF elapsed_time < duration
                                  THEN duration - elapsed_time ELSE 0]

\* the task runs from the top of the while loop to its next suspension, or
\* to its end.  The callback, when there is one, returns or raises at once,
\* or suspends.
MonitorLoop ==
    LET elapsed_time == IF progress.start_time # NoTime /\ progress.start_time # 0
                        THEN now - progress.start_time ELSE 0
        duration == Secs(config.duration_seconds)
        progress_percent == IF config.duration_seconds > 0
                            THEN RatMin(RatInt(100),
                                        Rat(elapsed_time * 100, duration))
                            ELSE RatInt(0)
        snap == Snapshot(elapsed_time, progress_percent)
        appended == [progress EXCEPT !.progress_data = Append(@, snap)]
    IN  /\ \/ progress.task = "created"
           \/ progress.task \in {"sleep", "error_sleep"} /\ now >= progress.wake
        /\ ~progress.cancel
        /\ IF ~progress.is_monitoring
           THEN /\ progress' = [progress EXCEPT !.task = "done", !.wake = 0]
                /\ UNCHANGED peak_rps
           ELSE IF \/ test_complete(progress_percent, elapsed_time, duration)
                   \/ elapsed_time > duration + Secs(5)
           THEN /\ progress' = [progress EXCEPT !.is_monitoring = FALSE,
                                                !.task = "done", !.wake = 0]
                /\ UNCHANGED peak_rps
           ELSE /\ peak_rps' = peak_rps_after_snapshot(snap.current_rps)
                /\ IF progress.update_callback
                   THEN \/ progress' = [appended EXCEPT !.task = "sleep",
                                                        !.wake = SleepUntil]
                        \/ progress' = [appended EXCEPT !.task = "error_sleep",
                                                        !.wake = SleepUntil]
                        \/ progress' = [appended EXCEPT !.task = "callback",
                                                        !.wake = 0]
                   ELSE progress' = [appended EXCEPT !.task = "sleep",
                                                     !.wake = SleepUntil]
        /\ UNCHANGED <<config, opc, start_time, end_time, results, active_users,
                       completed_requests, failed_requests, now>>
        /\ ProgressFrame

\* the callback that had suspended returns (sleep(1.0) of the try starts) or
\* raises an Exception (sleep(1.0) of the except clause starts)
CallbackOver ==
    /\ progress.task = "callback"
    /\ ~progress.cancel
    /\ \E next \in {"sleep", "error_sleep"} :
        progress' = [progress EXCEPT !.task = next, !.wake = SleepUntil]
    /\ UNCHANGED now
    /\ UNCHANGED GeneratorFields
    /\ ProgressFrame

\* CancelledError is thrown into the task where it is suspended; it is no
\* Exception, so the except clause of the loop lets it through
ProgressCancelled ==
    /\ progress.task \in ProgressSuspended
    /\ progress.cancel
    /\ progress' = thrown_cancelled(progress)
    /\ UNCHANGED now
    /\ UNCHANGED GeneratorFields
    /\ ProgressFrame

\* ------------------------------------------------------- stop_monitoring
\* stop_monitoring up to its suspension: the flag, cancel(), and wait_for,
\* which returns at once when the task is over already
StopMonitoring ==
    /\ progress.pc \in {"new", "started"}
    /\ progress.stop = "none"
    /\ IF progress.task = "none" \/ progress.task \in ProgressTerminal
       THEN progress' = [progress EXCEPT !.is_monitoring = FALSE,
                                         !.stop = "returned", !.stop_at = now]
       ELSE progress' = [progress EXCEPT !.is_monitoring = FALSE,
                                         !.cancel = TRUE,
                                         !.stop = "waiting", !.stop_at = now]
    /\ UNCHANGED now
    /\ UNCHANGED GeneratorFields
    /\ ProgressFrame

\* wait_for is over: the task has ended (CancelledError, swallowed), or the
\* 2.0 s have passed (TimeoutError, swallowed)
StopMonitoringWaitOver ==
    /\ progress.stop = "waiting"
    /\ \/ progress.task \in ProgressTerminal
       \/ now >= progress.stop_at + Secs(2)
    /\ progress' = [progress EXCEPT !.stop = "returned"]
    /\ UNCHANGED now
    /\ UNCHANGED GeneratorFields
    /\ ProgressFrame

\* a step the event loop can take now
ProgressReady ==
    \/ progress.task = "created"
    \/ progress.task \in ProgressSuspended /\ progress.cancel
    \/ progress.task \in {"sleep", "error_sleep"} /\ now >= progress.wake
    \/ progress.stop = "waiting" /\ progress.task \in ProgressTerminal

\* time passes, when no task is ready
ProgressTick ==
    /\ now < 1 + MaxTime
    /\ ~ProgressReady
    /\ now' = now + 1
    /\ UNCHANGED progress
    /\ UNCHANGED GeneratorFields
    /\ ProgressFrame

ProgressNext ==
    \/ GeneratorStarts
    \/ GeneratorRequest
    \/ GeneratorEnds
    \/ StartMonitoring
    \/ MonitorLoop
    \/ CallbackOver
    \/ ProgressCancelled
    \/ StopMonitoring
    \/ StopMonitoringWaitOver
    \/ ProgressTick

ProgressSpec == ProgressInit /\ [][ProgressNext]_vars

\* the event loop runs a task that is ready, time passes, and a callback
\* that has suspended is over in the end
ProgressFairSpec ==
    /\ ProgressSpec
    /\ WF_vars(MonitorLoop)
    /\ WF_vars(CallbackOver)
    /\ WF_vars(ProgressCancelled)
    /\ WF_vars(StopMonitoringWaitOver)
    /\ WF_vars(ProgressTick)

\* ------------------------------------ a run with a progress callback
\* set_progress_callback was called on the generator before the run, and a
\* ProgressMonitor with a callback of its own may watch it
CallbackInit ==
    /\ config \in RerunConfigs
    /\ system_specs = RunHost
    /\ now = 1
    /\ opc = "idle"
    /\ start_time = NoTime
    /\ end_time = NoTime
    /\ results = <<>>
    /\ active_users = 0
    /\ completed_requests = 0
    /\ failed_requests = 0
    /\ groups = <<>>
    /\ sims = <<>>
    /\ monitor = NoMonitor
    /\ pending = "none"
    /\ ext_cancel = "none"
    /\ result = NoResult
    /\ exec = NoExec
    /\ sampled = NoSample
    /\ host = RunMachine
    /\ peak_rps = RatInt(0)
    /\ crawl = NoCrawl
    /\ stress = NoStress
    /\ runs = 0
    /\ progress_task = [NoProgressTask EXCEPT !.callback = TRUE]
    /\ progress = NewProgress(TRUE)

\* one turn of the loop of _progress_monitor: the loop ends after
\* duration_seconds; otherwise _update_progress computes current_rps, raises
\* peak_rps and awaits the callback, which returns or raises, and the task
\* sleeps for a second
ProgressTaskTurn ==
    /\ progress_task.pc \in {"created", "sleep"}
    /\ ~progress_task.cancel
    /\ now >= progress_task.wake
    /\ IF ~(now - start_time < Secs(config.duration_seconds))
       THEN /\ progress_task' = [progress_task EXCEPT !.pc = "done", !.wake = 0]
            /\ UNCHANGED peak_rps
       ELSE LET elapsed_time == now - start_time
                current_rps == IF elapsed_time > 0
                               THEN Rat(completed_requests * TicksPerSecond,
                                        elapsed_time)
                               ELSE RatInt(0)
            IN  /\ peak_rps' = RatMax(peak_rps, current_rps)
                /\ \/ progress_task' = [progress_task EXCEPT
                                            !.pc = "sleep", !.wake = now + Secs(1)]
                   \/ progress_task' = [progress_task EXCEPT
                                            !.pc = "raised", !.wake = 0]
    /\ UNCHANGED <<runs, crawl, stress, exec, sampled, host, progress, config,
                   system_specs, now, opc, start_time, end_time, results,
                   active_users, completed_requests, failed_requests, groups,
                   sims, monitor, pending, ext_cancel, result>>

\* gather() is over and the progress task has not ended:
\* progress_task.cancel(), and _execute_load_test awaits the task
CancelProgressTask ==
    /\ opc = "running"
    /\ scheduler_done
    /\ progress_task.pc \in {"created", "sleep"}
    /\ ~progress_task.cancel
    /\ progress_task' = [progress_task EXCEPT !.cancel = TRUE]
    /\ UNCHANGED <<runs, crawl, stress, exec, sampled, host, peak_rps, progress,
                   config, system_specs, now, opc, start_time, end_time, results,
                   active_users, completed_requests, failed_requests, groups,
                   sims, monitor, pending, ext_cancel, result>>

\* CancelledError is thrown into the progress task
ProgressTaskCancelled ==
    /\ progress_task.pc \in {"created", "sleep"}
    /\ progress_task.cancel
    /\ progress_task' = [progress_task EXCEPT !.pc = "cancelled",
                                              !.cancel = FALSE, !.wake = 0]
    /\ UNCHANGED <<runs, crawl, stress, exec, sampled, host, peak_rps, progress,
                   config, system_specs, now, opc, start_time, end_time, results,
                   active_users, completed_requests, failed_requests, groups,
                   sims, monitor, pending, ext_cancel, result>>

ProgressTaskReady ==
    /\ progress_task.pc \in {"created", "sleep"}
    /\ progress_task.cancel \/ now >= progress_task.wake

\* time passes within the window, when no task is ready
CallbackTick ==
    /\ now < 1 + MaxTime
    /\ opc \in {"running", "stopping"} \/ progress.task \in ProgressSuspended
    /\ ~RunReady
    /\ ~MonitorReady
    /\ ~ProgressTaskReady
    /\ ~ProgressReady
    /\ \A g \in DOMAIN groups : ~GroupReady(g)
    /\ \A s \in SimIds : ~SimReady(s)
    /\ now' = now + 1
    /\ UNCHANGED <<progress_task, runs, crawl, stress, exec, sampled, host,
                   peak_rps, progress, config, system_specs,
                   opc, start_time, end_time, results,
                   active_users, completed_requests, failed_requests, groups,
                   sims, monitor, pending, ext_cancel, result>>

CallbackNext ==
    \/ RunLoadTest
    \/ \E g \in DOMAIN groups : GroupStart(g)
    \/ \E g \in DOMAIN groups : GroupJoin(g)
    \/ \E s \in SimIds : SimAcquire(s)
    \/ \E s \in SimIds : SimRampUpOver(s)
    \/ \E s \in SimIds : SimRequestReturns(s)
    \/ \E s \in SimIds : SimThinkOver(s)
    \/ \E s \in SimIds : SimRampDownOver(s)
    \/ MonitorSample
    \/ MonitorCancelled
    \/ ProgressTaskTurn
    \/ CancelProgressTask
    \/ ProgressTaskCancelled
    \/ ExecuteLoadTestOver
    \/ StopMonitoringOver
    \/ StartMonitoring
    \/ MonitorLoop
    \/ CallbackOver
    \/ ProgressCancelled
    \/ StopMonitoring
    \/ StopMonitoringWaitOver
    \/ CallbackTick

CallbackSpec == CallbackInit /\ [][CallbackNext]_vars

\* ================================================================ crawl_site
\* an absolute URL as urlparse splits it, and an href that may carry a
\* fragment
Url(scheme, netloc, path) == [scheme |-> scheme, netloc |-> netloc, path |-> path]
Href(scheme, netloc, path, fragment) ==
    [scheme |-> scheme, netloc |-> netloc, path |-> path, fragment |-> fragment]

\* the hrefs a page can carry, joined with the URL of the page: pages of the
\* site with or without a fragment, a page of another host, a mailto link
Hrefs ==
    {Href("http", "base", p, f) : p \in 0..MaxPath, f \in BOOLEAN}
        \cup {Href("http", "other", 1, FALSE), Href("mailto", "", 0, FALSE)}

\* the links of one fetched page, in document order
LinkLists == UNION {[1..n -> Hrefs] : n \in 0..MaxLinks}

\* clean_url: scheme, netloc, path and query; the fragment is dropped
clean_url(href) == Url(href.scheme, href.netloc, href.path)

\* re.search(pattern, current_url), for a pattern that names one path
Matches(pattern, url) == url.path = pattern

base_url == Url("http", "base", 0)

\* the arguments of a call
CrawlArgs ==
    [max_depth : 0..MaxDepth, max_pages : 0..MaxPages,
     same_origin_only : BOOLEAN,
     include_patterns : {{}, {0, 1}}, exclude_patterns : {{}, {2}}]

CrawlInit ==
    /\ crawl \in {[pc |-> "called", args |-> a, visited |-> {},
                   to_visit |-> <<>>, found_urls |-> <<>>] : a \in CrawlArgs}
    /\ stress = NoStress
    /\ runs = 0
    /\ progress_task = NoProgressTask
    /\ config = ExecConfig
    /\ system_specs = RunHost
    /\ now = 1
    /\ opc = "idle"
    /\ start_time = NoTime
    /\ end_time = NoTime
    /\ results = <<>>
    /\ active_users = 0
    /\ completed_requests = 0
    /\ failed_requests = 0
    /\ groups = <<>>
    /\ sims = <<>>
    /\ monitor = NoMonitor
    /\ pending = "none"
    /\ ext_cancel = "none"
    /\ result = NoResult
    /\ exec = NoExec
    /\ sampled = NoSample
    /\ host = RunMachine
    /\ peak_rps = RatInt(0)
    /\ progress = NoProgress

CrawlFrame ==
    UNCHANGED <<config, system_specs, now, opc, start_time, end_time, results,
                active_users, completed_requests, failed_requests, groups, sims,
                monitor, pending, ext_cancel, result, exec, sampled, host,
                peak_rps, progress, stress, runs, progress_task>>

\* visited, to_visit and found_urls are set up
CrawlStart ==
    /\ crawl.pc = "called"
    /\ crawl' = [crawl EXCEPT !.pc = "loop",
                              !.to_visit = <<[url |-> base_url, depth |-> 0]>>]
    /\ CrawlFrame

\* a loop that goes on as long as the queue has entries
loop_test_queue_only(c) == c.to_visit # <<>>

\* while to_visit and len(found_urls) < max_pages
loop_test(c) == c.to_visit # <<>> /\ Len(c.found_urls) < c.args.max_pages

\* the continue statements before the page is recorded
skipped(c, current_url, depth) ==
    \/ current_url \in c.visited
    \/ depth > c.args.max_depth
    \/ /\ c.args.include_patterns # {}
       /\ ~\E pattern \in c.args.include_patterns : Matches(pattern, current_url)
    \/ /\ c.args.exclude_patterns # {}
       /\ \E pattern \in c.args.exclude_patterns : Matches(pattern, current_url)

\* the body of `for link in soup.find_all('a', href=True)` for the first k
\* links of the page
RECURSIVE add_links(_, _, _, _, _)
add_links(c, links, k, depth, to_visit) ==
    IF k = 0 THEN to_visit
    ELSE LET before == add_links(c, links, k - 1, depth, to_visit)
             parsed == links[k]
         IN  IF parsed.scheme \notin {"http", "https"} THEN before
             ELSE IF c.args.same_origin_only /\ parsed.netloc # base_url.netloc
             THEN before
             ELSE IF /\ clean_url(parsed) \notin c.visited
                     /\ \A i \in 1..Len(before) : before[i].url # clean_url(parsed)
             THEN Append(before, [url |-> clean_url(parsed), depth |-> depth + 1])
             ELSE before

\* one turn of the loop.  The page is fetched only below max_depth; the
\* fetch gives a page with its links, or no page (another status, another
\* content type, an exception), or an exception ends the turn after some of
\* the links
CrawlTurn ==
    /\ crawl.pc = "loop"
    /\ loop_test(crawl)
    /\ LET current_url == Head(crawl.to_visit).url
           depth == Head(crawl.to_visit).depth
           popped == [crawl EXCEPT !.to_visit = Tail(@)]
           recorded == [popped EXCEPT !.visited = @ \cup {current_url},
                                      !.found_urls = Append(@, current_url)]
       IN  IF skipped(popped, current_url, depth)
           THEN crawl' = popped
           ELSE IF depth >= crawl.args.max_depth
           THEN crawl' = recorded
           ELSE \E links \in LinkLists : \E k \in 0..Len(links) :
                    crawl' = [recorded EXCEPT !.to_visit =
                                add_links(recorded, links, k, depth, @)]
    /\ CrawlFrame

\* return found_urls
CrawlReturn ==
    /\ crawl.pc = "loop"
    /\ ~loop_test(crawl)
    /\ crawl' = [crawl EXCEPT !.pc = "returned"]
    /\ CrawlFrame

CrawlNext ==
    \/ CrawlStart
    \/ CrawlTurn
    \/ CrawlReturn

CrawlSpec == CrawlInit /\ [][CrawlNext]_vars

\* the interpreter goes on with the function it is in
CrawlFairSpec ==
    /\ CrawlSpec
    /\ WF_vars(CrawlStart)
    /\ WF_vars(CrawlTurn)
    /\ WF_vars(CrawlReturn)

\* ================================================= capacity and launch
\* a run from the call of run_load_test to the launch of the simulators of
\* its thread groups, with user counts at the ceiling of the host
\* (max_recommended_vu) and next to it
CeilingCounts ==
    {1, RunHost.max_recommended_vu, RunHost.max_recommended_vu + 1}

CapacityGroupLists ==
    {<<>>}
        \cup {<<[virtual_users |-> n]>> : n \in CeilingCounts}
        \cup {<<[virtual_users |-> n], [virtual_users |-> k]>> :
                 n \in CeilingCounts, k \in {1, RunHost.max_recommended_vu}}

CapacityConfigs ==
    [virtual_users : CeilingCounts,
     thread_groups : CapacityGroupLists,
     duration_seconds : {1},
     ramp_up_seconds : {0, 1},
     ramp_down_seconds : {0},
     think_time_ticks : {0},
     max_concurrent_browsers : {1},
     enable_resource_monitoring : BOOLEAN]

CapacityInit ==
    /\ config \in CapacityConfigs
    /\ system_specs = RunHost
    /\ now = 1
    /\ opc = "idle"
    /\ start_time = NoTime
    /\ end_time = NoTime
    /\ results = <<>>
    /\ active_users = 0
    /\ completed_requests = 0
    /\ failed_requests = 0
    /\ groups = <<>>
    /\ sims = <<>>
    /\ monitor = NoMonitor
    /\ pending = "none"
    /\ ext_cancel = "none"
    /\ result = NoResult
    /\ exec = NoExec
    /\ sampled = NoSample
    /\ host = RunMachine
    /\ peak_rps = RatInt(0)
    /\ crawl = NoCrawl
    /\ stress = NoStress
    /\ runs = 0
    /\ progress_task = NoProgressTask
    /\ progress = NoProgress

CapacityNext ==
    \/ RunLoadTest
    \/ \E g \in DOMAIN groups : GroupStart(g)

CapacitySpec == CapacityInit /\ [][CapacityNext]_vars

\* ========================================================== StressTester
\* stress_test.py.  stress holds a StressTester and the call of
\* run_stress_test on it; instants are ticks of `now`, as in the runs above.
\* think_time_seconds is a float and is given in ticks.
StressConfigs ==
    [concurrent_users : 0..MaxStressUsers,
     duration_seconds : 0..MaxStressSeconds,
     ramp_up_seconds : 0..MaxStressSeconds,
     think_time_ticks : 0..MaxThinkTicks]

\* what _execute_request returns: success with error_message None, or the
\* text of the exception that `except Exception` caught
StressErrTexts == {"404"}
StressOutcomes ==
    {[success |-> TRUE, error_message |-> NoError]}
        \cup {[success |-> FALSE, error_message |-> t] : t \in StressErrTexts}

NoSummary == [total_requests |-> -1]

\* StressTester.__init__, and the tester before run_stress_test is called
NewStressTester(c) ==
    [pc |-> "constructed", config |-> c, results |-> <<>>,
     start_time |-> NoTime, end_time |-> NoTime, semaphore |-> 0,
     tasks |-> <<>>, deadline |-> NoTime, timed_out |-> FALSE,
     summary |-> NoSummary]

StressInit ==
    /\ stress \in {NewStressTester(c) : c \in StressConfigs}
    /\ crawl = NoCrawl
    /\ runs = 0
    /\ progress_task = NoProgressTask
    /\ config = ExecConfig
    /\ system_specs = RunHost
    /\ now = 1
    /\ opc = "idle"
    /\ start_time = NoTime
    /\ end_time = NoTime
    /\ results = <<>>
    /\ active_users = 0
    /\ completed_requests = 0
    /\ failed_requests = 0
    /\ groups = <<>>
    /\ sims = <<>>
    /\ monitor = NoMonitor
    /\ pending = "none"
    /\ ext_cancel = "none"
    /\ result = NoResult
    /\ exec = NoExec
    /\ sampled = NoSample
    /\ host = RunMachine
    /\ peak_rps = RatInt(0)
    /\ progress = NoProgress

StressFrame ==
    UNCHANGED <<config, system_specs, opc, start_time, end_time, results,
                active_users, completed_requests, failed_requests, groups, sims,
                monitor, pending, ext_cancel, result, exec, sampled, host,
                peak_rps, progress, crawl, runs, progress_task>>

StressUsers == DOMAIN stress.tasks
StressTaskTerminal == {"done", "cancelled"}
StressTaskHolding == {"ramp", "request", "think"}

\* a semaphore with one permit less than there are users
stress_semaphore_one_short(c) ==
    IF c.concurrent_users > 0 THEN c.concurrent_users - 1 ELSE 0

\* asyncio.Semaphore(self.config.concurrent_users)
stress_semaphore(c) == c.concurrent_users

\* run_stress_test up to its await: start_time, the semaphore, one task for
\* each user_id in range(concurrent_users), and wait_for with its timeout
RunStressTest ==
    /\ stress.pc = "constructed"
    /\ stress' = [stress EXCEPT
            !.pc = "waiting",
            !.start_time = now,
            !.semaphore = stress_semaphore(stress.config),
            !.tasks = [user_id \in 0..(stress.config.concurrent_users - 1) |->
                          [pc |-> "created", wake |-> now, request_id |-> 0,
                           req_start |-> NoTime, cancel |-> FALSE]],
            !.deadline = now + Secs(stress.config.duration_seconds)]
    /\ UNCHANGED now
    /\ StressFrame

\* (user_id / concurrent_users) * ramp_up_seconds, in ticks
StressRampDelayTicks(user_id) ==
    CeilDiv(user_id * Secs(stress.config.ramp_up_seconds),
            stress.config.concurrent_users)

\* the top of `while True`: break when the duration has passed, which leaves
\* `async with semaphore`; the ramp-up sleep before request 0; else the
\* next request
StressLoopTop(st, user_id, request_id) ==
    IF st.start_time # NoTime /\ st.start_time # 0
       /\ now - st.start_time > Secs(st.config.duration_seconds)
    THEN [st EXCEPT !.tasks[user_id].pc = "done",
                    !.tasks[user_id].request_id = request_id,
                    !.semaphore = @ + 1]
    ELSE IF request_id = 0
    THEN [st EXCEPT !.tasks[user_id].pc = "ramp",
                    !.tasks[user_id].request_id = request_id,
                    !.tasks[user_id].wake = now + StressRampDelayTicks(user_id)]
    ELSE [st EXCEPT !.tasks[user_id].pc = "request",
                    !.tasks[user_id].request_id = request_id,
                    !.tasks[user_id].req_start = now]

\* _simulate_user enters `async with semaphore`: with a free permit it goes
\* on to the loop, without one it waits until a permit is released
StressUserAcquire(user_id) ==
    /\ stress.pc = "waiting"
    /\ ~stress.tasks[user_id].cancel
    /\ \/ stress.tasks[user_id].pc = "created"
       \/ stress.tasks[user_id].pc = "blocked" /\ stress.semaphore > 0
    /\ IF stress.semaphore = 0
       THEN stress' = [stress EXCEPT !.tasks[user_id].pc = "blocked"]
       ELSE stress' = StressLoopTop([stress EXCEPT !.semaphore = @ - 1],
                                    user_id, 0)
    /\ UNCHANGED now
    /\ StressFrame

\* asyncio.sleep(ramp_up_delay) is over: _execute_request is called
StressRampUpOver(user_id) ==
    /\ stress.pc = "waiting"
    /\ stress.tasks[user_id].pc = "ramp"
    /\ ~stress.tasks[user_id].cancel
    /\ stress.tasks[user_id].wake <= now
    /\ stress' = [stress EXCEPT !.tasks[user_id].pc = "request",
                                !.tasks[user_id].req_start = now]
    /\ UNCHANGED now
    /\ StressFrame

\* StressTestResult as _execute_request builds it
StressResult(u, r, st, et, ok, msg, rt) ==
    [user_id |-> u, request_id |-> r, start_time |-> st, end_time |-> et,
     duration |-> et - st, success |-> ok, error_message |-> msg,
     response_time |-> rt]

\* _execute_request returns, the result is appended, and the think time and
\* the 10 ms pause begin.  A browser-backed request takes time.
StressRequestReturns(user_id) ==
    /\ stress.pc = "waiting"
    /\ stress.tasks[user_id].pc = "request"
    /\ ~stress.tasks[user_id].cancel
    /\ now > stress.tasks[user_id].req_start
    /\ \E o \in StressOutcomes :
        LET t == stress.tasks[user_id]
            r == StressResult(user_id, t.request_id, t.req_start, now,
                              o.success, o.error_message,
                              IF o.success THEN now - t.req_start ELSE 0)
        IN  stress' = [stress EXCEPT
                !.results = Append(@, r),
                !.tasks[user_id].pc = "think",
                !.tasks[user_id].wake =
                    now + (IF stress.config.think_time_ticks > 0
                           THEN stress.config.think_time_ticks ELSE 0)]
    /\ UNCHANGED now
    /\ StressFrame

\* the sleeps after a request are over: request_id += 1 and the loop test
StressThinkOver(user_id) ==
    /\ stress.pc = "waiting"
    /\ stress.tasks[user_id].pc = "think"
    /\ ~stress.tasks[user_id].cancel
    /\ stress.tasks[user_id].wake <= now
    /\ stress' = StressLoopTop(stress, user_id,
                               stress.tasks[user_id].request_id + 1)
    /\ UNCHANGED now
    /\ StressFrame

\* gather(*tasks, return_exceptions=True) is done when every task is
StressGatherDone ==
    \A u \in StressUsers : stress.tasks[u].pc \in StressTaskTerminal

\* the timeout of wait_for expires before the gather is done: the gather is
\* cancelled, which cancels every task that is not done, and wait_for waits
\* for the cancellation to be over
StressTimeout ==
    /\ stress.pc = "waiting"
    /\ ~stress.timed_out
    /\ ~StressGatherDone
    /\ now >= stress.deadline
    /\ stress' = [stress EXCEPT
            !.timed_out = TRUE,
            !.tasks = [u \in StressUsers |->
                          IF stress.tasks[u].pc \in StressTaskTerminal
                          THEN stress.tasks[u]
                          ELSE [stress.tasks[u] EXCEPT !.cancel = TRUE]]]
    /\ UNCHANGED now
    /\ StressFrame

\* CancelledError reaches a task: at its await (it is no Exception, so
\* _execute_request does not catch it), where `async with semaphore` gives
\* the permit back, or before its first step
StressUserCancelled(user_id) ==
    /\ stress.pc = "waiting"
    /\ stress.tasks[user_id].cancel
    /\ stress.tasks[user_id].pc \notin StressTaskTerminal
    /\ stress' = [stress EXCEPT
            !.tasks[user_id].pc = "cancelled",
            !.semaphore = IF stress.tasks[user_id].pc \in StressTaskHolding
                          THEN @ + 1 ELSE @]
    /\ UNCHANGED now
    /\ StressFrame

\* a handler that lets the timeout through
stress_except_nothing(thrown) == thrown

\* except asyncio.TimeoutError
stress_except(thrown) == IF thrown = "TimeoutError" THEN "none" ELSE thrown

\* _calculate_summary; _percentile and _categorize_error of this class have
\* the text of the load generator's
calculate_summary(rs, st, et) ==
    IF rs = <<>>
    THEN [total_requests |-> 0, successful_requests |-> 0,
          failed_requests |-> 0, success_rate |-> RatInt(0),
          avg_response_time |-> RatInt(0), min_response_time |-> 0,
          max_response_time |-> 0, p95_response_time |-> RatInt(0),
          p99_response_time |-> RatInt(0), requests_per_second |-> RatInt(0),
          total_duration |-> 0, errors |-> <<>>]
    ELSE
    LET successful_results == SelectSeq(rs, IsSuccess)
        failed_results == SelectSeq(rs, LAMBDA r : ~r.success)
        total_requests == Len(rs)
        response_times == response_times_of(rs)
        has_times == response_times # <<>>
        total_duration == IF et # NoTime /\ et # 0 /\ st # NoTime /\ st # 0
                          THEN et - st ELSE 0
    IN
    [total_requests |-> total_requests,
     successful_requests |-> Len(successful_results),
     failed_requests |-> Len(failed_results),
     success_rate |-> IF total_requests > 0
                      THEN RatMul(Rat(Len(successful_results), total_requests),
                                  RatInt(100))
                      ELSE RatInt(0),
     avg_response_time |-> IF has_times
                           THEN Rat(SeqSum(response_times), Len(response_times))
                           ELSE RatInt(0),
     min_response_time |-> IF has_times THEN SetMin(SeqToSet(response_times)) ELSE 0,
     max_response_time |-> IF has_times THEN SetMax(SeqToSet(response_times)) ELSE 0,
     p95_response_time |-> IF has_times THEN percentile(response_times, 95) ELSE RatInt(0),
     p99_response_time |-> IF has_times THEN percentile(response_times, 99) ELSE RatInt(0),
     requests_per_second |-> IF total_duration > 0
                             THEN Rat(total_requests * TicksPerSecond, total_duration)
                             ELSE RatInt(0),
     total_duration |-> total_duration,
     errors |-> analyze_errors(failed_results)]

\* wait_for is over, with the gather's result or with TimeoutError once the
\* cancelled tasks have ended; then the tasks still not done are cancelled,
\* end_time is taken and the summary returned
StressWaitOver ==
    /\ stress.pc = "waiting"
    /\ StressGatherDone
    /\ LET thrown == stress_except(IF stress.timed_out THEN "TimeoutError"
                                                       ELSE "none")
       IN  IF thrown # "none"
           THEN stress' = [stress EXCEPT !.pc = "raised"]
           ELSE stress' = [stress EXCEPT
                    !.pc = "returned",
                    !.tasks = [u \in StressUsers |->
                                  IF stress.tasks[u].pc \in StressTaskTerminal
                                  THEN stress.tasks[u]
                                  ELSE [stress.tasks[u] EXCEPT !.cancel = TRUE]],
                    !.end_time = now,
                    !.summary = calculate_summary(stress.results,
                                                  stress.start_time, now)]
    /\ UNCHANGED now
    /\ StressFrame

\* a task that the event loop can run now
StressUserReady(u) ==
    LET t == stress.tasks[u]
    IN  \/ t.cancel /\ t.pc \notin StressTaskTerminal
        \/ t.pc = "created"
        \/ t.pc = "blocked" /\ stress.semaphore > 0
        \/ t.pc \in {"ramp", "think"} /\ t.wake <= now

\* time passes while nothing is ready to run.  The timeout's callback runs
\* when the loop gets to it, at its instant or within the tick after it.
StressTick ==
    /\ stress.pc = "waiting"
    /\ ~StressGatherDone
    /\ \A u \in StressUsers : ~StressUserReady(u)
    /\ now <= stress.deadline
    /\ now' = now + 1
    /\ UNCHANGED stress
    /\ StressFrame

StressNext ==
    \/ RunStressTest
    \/ \E u \in StressUsers : StressUserAcquire(u)
    \/ \E u \in StressUsers : StressRampUpOver(u)
    \/ \E u \in StressUsers : StressRequestReturns(u)
    \/ \E u \in StressUsers : StressThinkOver(u)
    \/ \E u \in StressUsers : StressUserCancelled(u)
    \/ StressTimeout
    \/ StressWaitOver
    \/ StressTick

StressSpec == StressInit /\ [][StressNext]_vars

\* the event loop runs what is ready and the clock goes on
StressFairSpec == StressSpec /\ WF_vars(StressNext)

\* ================================================================ claims
\* the categories in the order of their tests, each with its words
Precedence ==
    << [category |-> "Timeout", words |-> {"timeout"}],
       [category |-> "Network Error", words |-> {"network", "connection"}],
       [category |-> "404 Not Found", words |-> {"404", "not found"}],
       [category |-> "Server Error", words |-> {"500", "server error"}],
       [category |-> "JavaScript Error", words |-> {"javascript", "script"}] >>
Categories == {Precedence[k].category : k \in 1..5} \cup {"Other Error"}
\* the tests a text passes, without regard to case
Hits(text) ==
    {k \in 1..5 : \E w \in Precedence[k].words : In(w, lower(Chars(text)))}
FirstMatch(text) ==
    IF Hits(text) = {} THEN "Other Error"
    ELSE Precedence[SetMin(Hits(text))].category
\* the sum of the values of a dict
RECURSIVE DictSum(_)
DictSum(d) ==
    IF DOMAIN d = {} THEN 0
    ELSE LET t == CHOOSE x \in DOMAIN d : TRUE
         IN  d[t] + DictSum([x \in DOMAIN d \ {t} |-> d[x]])
\* the outcomes _analyze_errors counts
CountedErrors ==
    {i \in 1..Len(results) :
        /\ ~results[i].success
        /\ results[i].error_message \notin {NoError, ""}}

\* C11: _categorize_error gives every text the category of the first test it
\* passes, in the order Timeout, Network Error, 404 Not Found, Server Error,
\* JavaScript Error, and Other Error when it passes none; the four texts of
\* the spec get Timeout, Network Error, 404 Not Found and Other Error; and
\* the errors of the result count each failed outcome with a non-empty text
\* once, under its category, so the counts sum to the number of them.
C11_ErrorCategories ==
    /\ \A text \in ErrorTexts :
        /\ categorize_error(text) \in Categories
        /\ categorize_error(text) = FirstMatch(text)
    /\ categorize_error("Timeout 30000ms exceeded") = "Timeout"
    /\ categorize_error("net::ERR_CONNECTION_REFUSED") = "Network Error"
    /\ categorize_error("404") = "404 Not Found"
    /\ categorize_error("weird failure xyz") = "Other Error"
    /\ opc = "done" =>
        /\ DOMAIN result.errors \subseteq Categories
        /\ \A t \in Categories :
            Get(result.errors, t, 0)
                = Cardinality({i \in CountedErrors :
                                  FirstMatch(results[i].error_message) = t})
        /\ \A t \in DOMAIN result.errors : result.errors[t] >= 1
        /\ DictSum(result.errors) = Cardinality(CountedErrors)

\* a reduced list with a failure whose text passes the tests of two
\* categories and a failure with an empty text, which is not counted
C11_Witness ==
    /\ opc = "done"
    /\ \E i \in CountedErrors : Cardinality(Hits(results[i].error_message)) >= 2
    /\ \E i \in 1..Len(results) :
        ~results[i].success /\ results[i].error_message = ""
    /\ Cardinality(CountedErrors) = 1
    /\ Cardinality(DOMAIN result.errors) = 1

\* C12: the profiler returns one tier with its ceilings: large (10000,
\* 25000) exactly when cpu >= 16 and mem >= 32; otherwise medium (5000,
\* 10000) exactly when cpu >= 8 and mem >= 16; otherwise small (1000, 1000).
\* 16/32 is large, 8/16 medium, 4/8 small and 8/15 small.
C12_CapacityTiers ==
    /\ opc = "idle" =>
        LET large == host.cpu_count >= 16 /\ host.memory_gb >= 32
            medium == ~large /\ host.cpu_count >= 8 /\ host.memory_gb >= 16
            tier == <<system_specs.scale, system_specs.max_recommended_vu,
                      system_specs.max_recommended_rps>>
        IN  /\ tier \in {<<"large", 10000, 25000>>, <<"medium", 5000, 10000>>,
                         <<"small", 1000, 1000>>}
            /\ system_specs.scale = "large" <=> large
            /\ system_specs.scale = "medium" <=> medium
            /\ system_specs.scale = "small" <=> ~large /\ ~medium
            /\ system_specs.cpu_count = host.cpu_count
            /\ system_specs.memory_gb = host.memory_gb
    /\ get_system_specs(16, 32).scale = "large"
    /\ get_system_specs(8, 16).scale = "medium"
    /\ get_system_specs(4, 8).scale = "small"
    /\ get_system_specs(8, 15).scale = "small"

\* a generator constructed on 8 CPUs and 15 GB: small, the memory gate of
\* medium fails
C12_Witness ==
    /\ opc = "idle"
    /\ host = [cpu_count |-> 8, memory_gb |-> 15]
    /\ system_specs.scale = "small"
    /\ system_specs.max_recommended_vu = 1000

\* C1 as stated: at every instant the simulators that hold a semaphore
\* permit, and so the browsers open at once, number at most
\* config.max_concurrent_browsers, however many thread groups are configured.
C1_GlobalBrowserCap ==
    Cardinality(AllHolders) <= config.max_concurrent_browsers

\* C1, amended: the cap is one per thread group.  The simulators of one group
\* that hold a permit number at most config.max_concurrent_browsers, so all
\* holders together number at most that times the number of thread groups,
\* and at most config.max_concurrent_browsers when there is a single group;
\* active_users is the number of holders.
C1_PerGroupBrowserCap ==
    /\ \A g \in DOMAIN groups :
        Cardinality(Holders(g)) <= config.max_concurrent_browsers
    /\ Cardinality(AllHolders)
           <= config.max_concurrent_browsers * Len(create_thread_groups)
    /\ Len(create_thread_groups) = 1
           => Cardinality(AllHolders) <= config.max_concurrent_browsers
    /\ active_users = Cardinality(AllHolders)

\* a group with more users than permits: every permit is held and a
\* simulator of the group waits for one
C1_Witness ==
    \E s \in SimIds :
        /\ sims[s].pc = "waiting"
        /\ groups[GroupOf(s)].sem = 0
        /\ Cardinality(Holders(GroupOf(s))) = config.max_concurrent_browsers
        /\ GroupUsers(GroupOf(s)) > config.max_concurrent_browsers

\* C2 as stated: when the caller's timeout or cancellation reaches
\* run_load_test while simulators are still running, run_load_test does not
\* raise: it returns a result whose total_requests is the number of outcomes
\* appended to the results list.
C2_CancelledRunReturns ==
    (ext_cancel = "running" /\ opc \in {"done", "raised"})
        => (opc = "done" /\ result.total_requests = Len(results))

\* C5: a failed request ends no simulator.  The step that appends a failed
\* outcome adds one to failed_requests and nothing to completed_requests,
\* leaves its simulator in the loop (at the think-time sleep) and leaves
\* every other simulator and every group task as they were; and a simulator
\* that leaves that sleep uncancelled while elapsed < duration issues its
\* next request.
C5_FailedRequestGoesOn ==
    [][\A s \in SimIds :
        /\ ( /\ sims[s].pc = "request"
             /\ Len(results') = Len(results) + 1
             /\ results'[Len(results')].group_id = GroupOf(s)
             /\ results'[Len(results')].user_id = UserOf(s)
             /\ ~results'[Len(results')].success )
           => /\ failed_requests' = failed_requests + 1
              /\ completed_requests' = completed_requests
              /\ sims'[s].pc = "think"
              /\ sims'[s].request_id = sims[s].request_id
              /\ \A t \in SimIds \ {s} : sims'[t] = sims[t]
              /\ \A g \in DOMAIN groups : groups'[g].pc = groups[g].pc
              /\ active_users' = active_users
        /\ ( /\ sims[s].pc = "think"
             /\ sims'[s].pc # "think"
             /\ ~sims[s].cancel
             /\ now - sims[s].main_start < Secs(GroupDuration(GroupOf(s))) )
           => /\ sims'[s].pc = "request"
              /\ sims'[s].request_id = sims[s].request_id + 1
      ]_vars

\* a simulator is in its second request after its first one failed, while
\* another simulator is still in its loop
C5_Witness ==
    \E s \in SimIds :
        /\ sims[s].pc = "request"
        /\ sims[s].request_id = 1
        /\ \E i \in 1..Len(results) :
            /\ results[i].group_id = GroupOf(s)
            /\ results[i].user_id = UserOf(s)
            /\ results[i].request_id = 0
            /\ ~results[i].success
        /\ failed_requests >= 1
        /\ \E t \in SimIds \ {s} : sims[t].pc \in {"request", "think"}

\* C6: the scheduler joins everything it starts.  Once run_load_test is past
\* the gather of _execute_load_test every thread-group task and every
\* simulator task has ended, and a group task has ended only after all its
\* simulators; a simulator is cancelled only by the caller's cancellation,
\* never by a sibling's exception; and what run_load_test raises is never a
\* simulator's exception: with a raised simulator, no cancellation and a
\* healthy monitor, the run returns.
C6_JoinsAllSimulators ==
    /\ opc \in {"stopping", "done", "raised"}
           => /\ \A g \in DOMAIN groups : groups[g].pc \in GroupTerminal
              /\ \A s \in SimIds : sims[s].pc \in SimTerminal
    /\ \A g \in DOMAIN groups :
           groups[g].pc \in GroupTerminal
               => \A s \in SimIds : GroupOf(s) = g => sims[s].pc \in SimTerminal
    /\ \A s \in SimIds :
           (sims[s].cancel \/ sims[s].pc = "cancelled") => ext_cancel = "running"
    /\ pending \in {"none", "ValueError", "CancelledError", "SamplingError"}
    /\ pending = "CancelledError" => ext_cancel \in {"running", "drained"}
    /\ ( /\ opc \in {"done", "raised"}
         /\ ext_cancel = "none"
         /\ monitor.task # "raised" )
           => /\ opc = "done"
              /\ result.total_requests = Len(results)

\* the run has returned a result with outcomes in it although one simulator
\* ended with an exception; its sibling ran its loop to the end
C6_Witness ==
    /\ opc = "done"
    /\ result.total_requests > 0
    /\ \E s \in SimIds : sims[s].pc = "raised"
    /\ \E t \in SimIds : sims[t].pc = "done"

\* C7: a run whose pre-flight validation fails raises and leaves nothing
\* behind: no thread-group or simulator task, the monitor not started,
\* start_time unset, the results list empty.  It is rejected exactly when
\* virtual_users exceeds max_recommended_vu or the CPU or memory sample
\* exceeds its limit; a run for which all three checks pass has started.
C7_ValidationIsAllOrNothing ==
    LET too_many == config.virtual_users > system_specs.max_recommended_vu
        cpu_high == sampled.cpu_percent > max_cpu_usage_percent
        memory_high == sampled.memory_percent > max_memory_usage_percent
    IN  /\ opc = "rejected"
            => /\ pending = "ValueError"
               /\ groups = <<>> /\ sims = <<>>
               /\ monitor = NoMonitor
               /\ start_time = NoTime /\ end_time = NoTime
               /\ results = <<>>
               /\ result = NoResult
               /\ too_many \/ cpu_high \/ memory_high
        /\ opc \notin {"idle", "rejected"}
            => /\ ~too_many /\ ~cpu_high /\ ~memory_high
               /\ sampled # NoSample
               /\ start_time # NoTime
               /\ DOMAIN groups = GroupIds
               /\ config.enable_resource_monitoring => monitor # NoMonitor

\* a run rejected for the memory sample alone, one unit over its limit
C7_Witness ==
    /\ opc = "rejected"
    /\ config.virtual_users <= system_specs.max_recommended_vu
    /\ sampled.cpu_percent = max_cpu_usage_percent
    /\ sampled.memory_percent = max_memory_usage_percent + 1

\* C13 as stated: a simulator that has its permit in a group with a ramp-up
\* sleeps (user_id / n) * ramp_up before its first request, n being the user
\* count of its own group, which is less than the group's ramp_up.
C13_RampDelayByGroupSize ==
    [][\A s \in SimIds :
        ( /\ sims[s].pc = "waiting"
          /\ sims'[s].pc # "waiting"
          /\ ~sims[s].cancel
          /\ GroupRampUp(GroupOf(s)) > 0 )
        => /\ sims'[s].pc = "ramp_up"
           /\ sims'[s].wake - now
                  = CeilDiv(UserOf(s) * Secs(GroupRampUp(GroupOf(s))),
                            GroupUsers(GroupOf(s)))
           /\ sims'[s].wake - now <= Secs(GroupRampUp(GroupOf(s)))
      ]_vars

\* the snapshots taken so far
ProgressData == IF progress.pc = "none" THEN <<>> ELSE progress.progress_data
\* the monitor task takes a step of its loop
MonitorLoopStep ==
    /\ progress.task \in {"created", "sleep", "error_sleep"}
    /\ ~progress.cancel
    /\ progress'.stop = progress.stop
    /\ progress' # progress
ProgressElapsed == now - progress.start_time

\* C14: stop_monitoring returns, without raising and well within its wait
\* of 2 s, whatever the monitor is doing: never started, ended by itself,
\* asleep or in its callback, and whatever became of the generator.  While
\* it waits the task is being cancelled and no time passes; when it has
\* returned is_monitoring is false, the task is over, and no snapshot is
\* appended any more.
C14_StopMonitoringReturns ==
    /\ [](progress.stop = "waiting"
            => /\ progress.cancel \/ progress.task \in ProgressTerminal
               /\ now = progress.stop_at)
    /\ [](progress.stop = "returned"
            => /\ ~progress.is_monitoring
               /\ progress.task = "none" \/ progress.task \in ProgressTerminal
               /\ now - progress.stop_at <= Secs(2))
    /\ [][progress.stop = "returned"
            => progress'.progress_data = progress.progress_data]_vars
    /\ (progress.stop = "waiting") ~> (progress.stop = "returned")

\* stop_monitoring has returned after it cancelled the monitor in its
\* callback; a snapshot was taken, and the generator had raised
C14_Witness ==
    /\ progress.pc = "started"
    /\ progress.stop = "returned"
    /\ progress.task = "cancelled"
    /\ Len(progress.progress_data) >= 1
    /\ progress.update_callback
    /\ opc = "raised"

\* C15: a monitor that was started ends: by itself (done) unless
\* stop_monitoring cancels it, even when the generator takes no step.  The
\* iteration at which elapsed >= duration takes no snapshot and ends the
\* loop, every earlier one takes a snapshot; with duration_seconds = 0 the
\* first iteration ends the loop and no snapshot is ever taken.
C15_MonitorLoopTerminates ==
    /\ (progress.pc = "started") ~> (progress.task \in ProgressTerminal)
    /\ [](progress.pc = "started" /\ progress.task = "cancelled"
            => progress.stop # "none")
    /\ [][MonitorLoopStep /\ progress.is_monitoring
            => IF ProgressElapsed >= Secs(config.duration_seconds)
               THEN /\ progress'.task = "done"
                    /\ ~progress'.is_monitoring
                    /\ progress'.progress_data = progress.progress_data
               ELSE /\ Len(progress'.progress_data)
                           = Len(progress.progress_data) + 1
                    /\ progress'.task \in {"callback", "sleep", "error_sleep"}
       ]_vars
    /\ [][config.duration_seconds = 0 => ProgressData' = <<>>]_vars

\* the loop has ended by itself, after a snapshot, though the generator
\* has not taken a step and stop_monitoring was not called
C15_Witness ==
    /\ progress.pc = "started"
    /\ progress.task = "done"
    /\ progress.stop = "none"
    /\ opc = "idle"
    /\ Len(progress.progress_data) >= 1

\* C16: the ProgressMonitor only reads the generator: a step of
\* start_monitoring, _monitor_loop or stop_monitoring leaves config, results,
\* the three counters, peak_rps, start_time and end_time (and where
\* run_load_test is) as they were.
C16_ReadOnlyObserver ==
    [][progress' # progress => UNCHANGED GeneratorFields]_vars

\* a snapshot was taken of a generator with requests counted and a positive
\* current_rps
C16_Witness ==
    /\ progress.pc = "started"
    /\ \E i \in 1..Len(progress.progress_data) :
        /\ progress.progress_data[i].completed_requests >= 1
        /\ ~RatLeq(progress.progress_data[i].current_rps, RatInt(0))
        /\ progress.progress_data[i].active_users = 1

\* C17 as stated: in every snapshot peak_rps is the largest current_rps of
\* the snapshots up to it, so it is at least its own current_rps and never
\* decreases along the history; current_rps is completed_requests / elapsed
\* (0 when elapsed is 0).
C17_PeakIsRunningMax ==
    \A i \in 1..Len(ProgressData) :
        LET d == ProgressData[i]
        IN  /\ RatLeq(d.current_rps, d.peak_rps)
            /\ \E j \in 1..i : RatEq(d.peak_rps, ProgressData[j].current_rps)
            /\ \A j \in 1..i : RatLeq(ProgressData[j].current_rps, d.peak_rps)
            /\ \A j \in 1..i : RatLeq(ProgressData[j].peak_rps, d.peak_rps)
            /\ IF d.elapsed_time = 0 THEN RatEq(d.current_rps, RatInt(0))
               ELSE RatEq(d.current_rps,
                          Rat(d.completed_requests * TicksPerSecond,
                              d.elapsed_time))

\* C18 as stated: a sampling call that fails does not end the monitor task
\* (the sample is skipped and the loop samples on), stop_monitoring does not
\* raise it, and run_load_test returns its result unless it was cancelled.
C18_SamplingFailureIsSkipped ==
    /\ monitor.task # "raised"
    /\ pending # "SamplingError"
    /\ opc = "raised" => ext_cancel \in {"running", "drained"}

\* C19: when run_load_test is over after the ResourceMonitor was started,
\* by its return or by the exception it raises (cancelled from outside
\* included), end_time is recorded, monitoring is false and the sampling
\* task is over, its pending cancellation delivered.
C19_MonitorStoppedBeforeReturn ==
    (opc \in {"done", "raised"} /\ config.enable_resource_monitoring)
        => /\ end_time # NoTime
           /\ end_time >= start_time
           /\ ~monitor.monitoring
           /\ monitor.task \in TaskTerminal
           /\ ~monitor.cancel

\* run_load_test was cancelled from outside and has raised; the sampling
\* task, which had taken a sample, ended by the cancellation
C19_Witness ==
    /\ opc = "raised"
    /\ config.enable_resource_monitoring
    /\ ext_cancel = "running"
    /\ monitor.task = "cancelled"
    /\ monitor.samples >= 1

\* the positions in results of the outcomes of simulator s, in append order
OutcomesOf(s) ==
    LET RECURSIVE Pick(_)
        Pick(i) == IF i > Len(results) THEN <<>>
                   ELSE IF /\ results[i].group_id = GroupOf(s)
                           /\ results[i].user_id = UserOf(s)
                        THEN <<results[i]>> \o Pick(i + 1)
                        ELSE Pick(i + 1)
    IN  Pick(1)

\* C20: the outcomes of one simulator, in the order they were appended,
\* carry the request ids 0, 1, 2, ...; each starts no earlier than the one
\* before it ended; and a simulator is in at most one request, which has the
\* id after its last outcome.
C20_RequestsAreSequential ==
    \A s \in SimIds :
        LET os == OutcomesOf(s)
        IN  /\ \A i \in 1..Len(os) : os[i].request_id = i - 1
            /\ \A i \in 2..Len(os) : os[i].start_time >= os[i - 1].end_time
            /\ sims[s].pc = "request"
                 => /\ sims[s].request_id = Len(os)
                    /\ Len(os) >= 1 => sims[s].req_start >= os[Len(os)].end_time

\* a simulator has two outcomes in results, the second after a think time
C20_Witness ==
    \E s \in SimIds :
        /\ Len(OutcomesOf(s)) = 2
        /\ OutcomesOf(s)[2].start_time > OutcomesOf(s)[1].end_time

\* the orders the outcomes of results could have been appended in
Reorderings ==
    {p \in [1..Len(results) -> 1..Len(results)] :
        \A i, j \in 1..Len(results) : i # j => p[i] # p[j]}
Reordered(p) == [i \in 1..Len(results) |-> results[p[i]]]

\* C21: the reduction does not depend on the order of the list.  The result
\* returned is the result of every reordering of the same outcomes with the
\* same start_time and end_time: totals, success rate, avg/min/max, the four
\* percentiles, average and peak RPS, error rate and error tallies.
C21_OrderIndependent ==
    opc = "done" =>
        \A p \in Reorderings :
            calculate_results(Reordered(p), start_time, end_time) = result

\* three outcomes were reduced: two timed successes, the slower appended
\* first, and a failure between them
C21_Witness ==
    /\ opc = "done"
    /\ Len(results) = 3
    /\ results[1].success /\ results[3].success
    /\ ~results[2].success
    /\ results[1].response_time > results[3].response_time
    /\ results[3].response_time > 0
    /\ results[1].start_time > results[3].start_time

\* C22: crawl_site returns at most max_pages URLs, none of them twice; a
\* URL is recorded only from the head of the queue at a depth <= max_depth,
\* and nothing waits in the queue at a greater depth; and the loop ends,
\* whatever pages the site serves.
C22_CrawlIsBounded ==
    /\ [](crawl.pc \in {"loop", "returned"}
            => /\ Len(crawl.found_urls) <= crawl.args.max_pages
               /\ \A i, j \in 1..Len(crawl.found_urls) :
                    i # j => crawl.found_urls[i] # crawl.found_urls[j]
               /\ \A i \in 1..Len(crawl.to_visit) :
                    crawl.to_visit[i].depth <= crawl.args.max_depth)
    /\ [][(crawl.pc = "loop" /\ crawl'.found_urls # crawl.found_urls)
            => /\ crawl'.found_urls
                    = Append(crawl.found_urls, Head(crawl.to_visit).url)
               /\ Head(crawl.to_visit).depth <= crawl.args.max_depth]_vars
    /\ <>(crawl.pc = "returned")

\* a crawl returned max_pages = 3 URLs, the last found at depth 2, with more
\* pages still in the queue
C22_Witness ==
    /\ crawl.pc = "returned"
    /\ crawl.args.max_pages = 3
    /\ crawl.args.max_depth = 2
    /\ Len(crawl.found_urls) = 3
    /\ crawl.to_visit # <<>>
    /\ crawl.found_urls[3].path = 3

\* C23: a thread group that has started has a semaphore of
\* min(virtual_users, max_concurrent_browsers) permits, shared with no other
\* group: the permits left and the simulators of the group that hold one add
\* up to that size, so the holders never exceed it.  Its simulators are those
\* with user ids 0..virtual_users-1, and a group not yet started has none.
\* No group waits for another: every group task is started (or cancelled) at
\* the instant the run started.
C23_GroupSemaphoreAndUsers ==
    \A g \in DOMAIN groups :
        LET mine == {s \in SimIds : GroupOf(s) = g}
            size == Min2(GroupUsers(g), config.max_concurrent_browsers)
        IN  /\ groups[g].pc = "created" => mine = {} /\ now = start_time
            /\ groups[g].pc = "joining" =>
                /\ mine = {g} \X (0..(GroupUsers(g) - 1))
                /\ groups[g].sem + Cardinality(Holders(g)) = size
                /\ groups[g].sem >= 0
                /\ Cardinality(Holders(g)) <= size

\* two groups run at once: each has a simulator that holds a permit of its
\* group, and the second group has more users than config.virtual_users
C23_Witness ==
    /\ Len(create_thread_groups) = 2
    /\ \A g \in DOMAIN groups :
        /\ groups[g].pc = "joining"
        /\ Holders(g) # {}
    /\ \E g \in DOMAIN groups : GroupUsers(g) # config.virtual_users

\* C24: at every suspension point the counters agree with the list:
\* completed_requests is the number of outcomes with success true,
\* failed_requests the number with success false, and together they are
\* len(results), also after a cancellation is delivered.  The list only
\* grows, by one outcome at its end, and what was appended stays as it was.
C24_CountersAgreeWithResults ==
    /\ [](/\ completed_requests = Len(SelectSeq(results, IsSuccess))
          /\ failed_requests = Len(results) - Len(SelectSeq(results, IsSuccess))
          /\ completed_requests + failed_requests = Len(results))
    /\ [][/\ Len(results') \in {Len(results), Len(results) + 1}
          /\ SubSeq(results', 1, Len(results)) = results]_vars

\* both counters are above zero while simulators were cancelled and the run
\* has raised
C24_Witness ==
    /\ completed_requests = 1
    /\ failed_requests = 1
    /\ ext_cancel = "running"
    /\ opc = "raised"
    /\ \E s \in SimIds : sims[s].pc = "cancelled"

\* the sum of the semaphore sizes of the groups
RECURSIVE SumOfSizes(_)
SumOfSizes(G) ==
    IF G = {} THEN 0
    ELSE LET g == CHOOSE x \in G : TRUE
         IN  semaphore_size(g) + SumOfSizes(G \ {g})

\* C25: active_users is the number of simulators that hold a permit, between
\* 0 and the sum of the semaphore sizes of the groups.  A step that ends a
\* simulator which held a permit (normal end, exception, cancellation) takes
\* one from active_users and gives the permit back.  Once every simulator of
\* every group has ended, active_users is 0 and every semaphore is full.
C25_ActiveUsersAreHolders ==
    /\ [](/\ active_users = Cardinality(AllHolders)
          /\ 0 <= active_users
          /\ active_users <= SumOfSizes(DOMAIN groups))
    /\ [][\A s \in SimIds :
            (sims[s].pc \in SimHolding /\ sims'[s].pc \in SimTerminal)
                => /\ active_users' = active_users - 1
                   /\ groups'[GroupOf(s)].sem = groups[GroupOf(s)].sem + 1]_vars
    /\ []((/\ \A g \in DOMAIN groups : groups[g].pc \in GroupTerminal
           /\ LiveSims = {})
            => /\ active_users = 0
               /\ \A g \in DOMAIN groups :
                    (groups[g].pc = "done" \/ \E s \in SimIds : GroupOf(s) = g)
                        => groups[g].sem = semaphore_size(g))

\* every simulator has ended, one by an exception, one by cancellation, and
\* one normally
C25_Witness ==
    /\ SimIds # {}
    /\ LiveSims = {}
    /\ \A g \in DOMAIN groups : groups[g].pc \in GroupTerminal
    /\ active_users = 0
    /\ \E s \in SimIds : sims[s].pc = "done"
    /\ \E s \in SimIds : sims[s].pc = "cancelled"

ResultsOf(s) ==
    {i \in 1..Len(results) :
        results[i].group_id = GroupOf(s) /\ results[i].user_id = UserOf(s)}

OutcomesOfThisRun == {i \in 1..Len(results) : results[i].start_time >= start_time}

\* C27 as stated: the live state belongs to one call of run_load_test and
\* starts again from empty with the next call on the same generator: in the
\* second run the list holds, and the counters count, only the outcomes of
\* that run, and the second result counts only those.
C27_SecondRunStartsFromZero ==
    (runs = 2 /\ opc \in {"running", "stopping", "done"})
        => /\ Len(results) = Cardinality(OutcomesOfThisRun)
           /\ completed_requests + failed_requests = Cardinality(OutcomesOfThisRun)
           /\ opc = "done" => result.total_requests = Cardinality(OutcomesOfThisRun)

\* C28: when the callback set with set_progress_callback raises, the
\* progress task ends with that exception and the step touches no thread
\* group and no simulator.  The run then ends only after every group and
\* every simulator has ended, none of them cancelled; run_load_test raises
\* (the callback's exception, or the sampling task's when that failed too)
\* and returns no result, with end_time recorded and the sampling task over.
\* A step of the ProgressMonitor, its callback raising included, changes
\* nothing of the run.
C28_CallbackErrorIsRaisedAfterTheGroups ==
    /\ []((progress_task.pc = "raised" /\ opc \in {"done", "raised"})
            => /\ opc = "raised"
               /\ pending \in {"CallbackError", "SamplingError"}
               /\ monitor.task # "raised" => pending = "CallbackError"
               /\ result = NoResult
               /\ end_time # NoTime
               /\ monitor.task \in {"none"} \cup TaskTerminal
               /\ \A g \in GroupIds : groups[g].pc = "done"
               /\ SimIds # {}
               /\ \A s \in SimIds : sims[s].pc \in {"done", "raised"})
    /\ [](pending = "CallbackError" => progress_task.pc = "raised")
    /\ [][(progress_task'.pc = "raised" /\ progress_task.pc # "raised")
            => UNCHANGED <<groups, sims, opc, pending, results>>]_vars
    /\ [][progress' # progress
            => UNCHANGED <<opc, pending, result, groups, sims, monitor,
                           progress_task, results>>]_vars

\* run_load_test has raised the exception of the progress callback after
\* the simulator made a request, while the ProgressMonitor, whose own
\* callback had raised, sleeps in its except clause
C28_Witness ==
    /\ opc = "raised"
    /\ pending = "CallbackError"
    /\ progress_task.pc = "raised"
    /\ Len(results) >= 1
    /\ progress.pc = "started"
    /\ progress.task = "error_sleep"

\* C29: run_stress_test always returns a StressTestSummary and never raises
\* the timeout of its wait.  When the wait expires while users are looping,
\* every task that is not done is cancelled, nothing is appended to results
\* from then on, end_time is recorded and the summary counts exactly the
\* results: total_requests = successful_requests + failed_requests =
\* len(results).  No user ever waits for a permit of the semaphore, and all
\* permits are back at the end.
C29_StressTestReturnsSummary ==
    /\ <>(stress.pc = "returned")
    /\ [](stress.pc # "raised")
    /\ [](\A u \in StressUsers : stress.tasks[u].pc # "blocked")
    /\ [](stress.pc = "returned" =>
            /\ stress.end_time # NoTime
            /\ stress.summary.total_requests = Len(stress.results)
            /\ stress.summary.total_requests =
                 stress.summary.successful_requests
                   + stress.summary.failed_requests
            /\ stress.summary.successful_requests =
                 Cardinality({i \in 1..Len(stress.results) :
                                 stress.results[i].success})
            /\ \A u \in StressUsers :
                 /\ stress.tasks[u].pc \in StressTaskTerminal
                 /\ stress.tasks[u].cancel => stress.tasks[u].pc = "cancelled"
            /\ stress.semaphore = stress.config.concurrent_users)
    /\ [][/\ stress.timed_out => stress'.results = stress.results
          /\ ~stress.timed_out /\ stress'.timed_out =>
                \A u \in StressUsers :
                    stress.tasks[u].pc \notin StressTaskTerminal
                        => stress'.tasks[u].cancel
          /\ stress.pc = "returned" => stress' = stress]_vars

\* the wait expired while both users were looping, after a success and a
\* failure were appended
C29_Witness ==
    /\ stress.pc = "returned"
    /\ stress.timed_out
    /\ stress.config.concurrent_users = MaxStressUsers
    /\ \A u \in StressUsers : stress.tasks[u].pc = "cancelled"
    /\ stress.summary.successful_requests >= 1
    /\ stress.summary.failed_requests >= 1


\* C30 as stated: in a run that has passed capacity validation, the
\* simulators launched over all thread groups are at most
\* system_specs.max_recommended_vu, whatever config.thread_groups says
C30_LaunchedWithinCeiling ==
    opc = "running" => Cardinality(SimIds) <= system_specs.max_recommended_vu

\* C3 as stated: every browser _execute_request launches is closed by its own
\* cleanup on every exit path: when the call is over, by return or by
\* cancellation, launch() and browser.close() went through equally often.
C3_EveryBrowserClosed ==
    exec.pc \in {"returned", "cancelled"} => exec.launched = exec.closed

\* C4 as stated: an exception raised by any await of _execute_request (start,
\* launch, context, page, navigation, teardown) is caught, and the outcome
\* returned has success false and the exception's text as error_message.
C4_FailureIsAFailedOutcome ==
    (exec.pc = "returned" /\ exec.failed_await # "none")
        => /\ ~exec.returned[1].success
           /\ exec.returned[1].error_message # NoError

Successes == {i \in 1..Len(results) : results[i].success}
Failures == {i \in 1..Len(results) : ~results[i].success}

\* C8: the reduction conserves the counts: total_requests is the length of
\* the list and the sum of successful_requests and failed_requests, which
\* are the numbers of outcomes with success true and false; success_rate is
\* successful/total*100, and an empty list gives zeros without a division.
C8_Conservation ==
    opc = "done" =>
        /\ result.total_requests = Len(results)
        /\ result.successful_requests = Cardinality(Successes)
        /\ result.failed_requests = Cardinality(Failures)
        /\ result.total_requests
               = result.successful_requests + result.failed_requests
        /\ result.success_rate.den # 0
        /\ IF results = <<>>
           THEN result.success_rate.num = 0
           ELSE RatEq(result.success_rate,
                      Rat(100 * Cardinality(Successes), Len(results)))

\* a reduced list that holds a failure, a success, and a success that
\* carries an error text
C8_Witness ==
    /\ opc = "done"
    /\ Len(results) >= 2
    /\ Successes # {}
    /\ \E i \in Failures : results[i].error_message # NoError
    /\ \E i \in Successes : results[i].error_message # NoError

\* the outcomes whose response times the percentiles are taken over
Timed == {i \in 1..Len(results) :
             results[i].success /\ results[i].response_time > 0}
\* the response time of rank k (from 0) among them
TimeOfRank(k) ==
    CHOOSE v \in {results[i].response_time : i \in Timed} :
        /\ Cardinality({i \in Timed : results[i].response_time < v}) <= k
        /\ k < Cardinality({i \in Timed : results[i].response_time <= v})
\* a hundred times the linear-interpolation percentile p of them
InterpolatedTimes100(p) ==
    LET pos == p * (Cardinality(Timed) - 1)
        f == pos \div 100
        r == pos % 100
    IN  IF r = 0 THEN 100 * TimeOfRank(f)
        ELSE 100 * TimeOfRank(f) + (TimeOfRank(f + 1) - TimeOfRank(f)) * r
ReportedPercentile(p) ==
    CASE p = 50 -> result.p50_response_time
      [] p = 90 -> result.p90_response_time
      [] p = 95 -> result.p95_response_time
      [] p = 99 -> result.p99_response_time

\* C9: every reported percentile is the linear-interpolation percentile of
\* the response times of the successful outcomes with response_time > 0
\* (0 when there is none); for [1,2,3,4,5], in any order, p50 = 3,
\* p90 = 4.6 and p99 = 4.96.
C9_Percentiles ==
    /\ opc = "done" =>
        \A p \in {50, 90, 95, 99} :
            IF Timed = {} THEN ReportedPercentile(p).num = 0
            ELSE RatEq(ReportedPercentile(p), Rat(InterpolatedTimes100(p), 100))
    /\ RatEq(percentile(<<1, 2, 3, 4, 5>>, 50), RatInt(3))
    /\ RatEq(percentile(<<5, 3, 1, 4, 2>>, 90), Rat(46, 10))
    /\ RatEq(percentile(<<1, 2, 3, 4, 5>>, 99), Rat(496, 100))

\* some outcome is left out of the response times, and the percentiles
\* fall strictly between the smallest and the largest of the rest
C9_Witness ==
    /\ opc = "done"
    /\ Cardinality(Timed) >= 2
    /\ Timed # 1..Len(results)
    /\ ~RatEq(result.p50_response_time, RatInt(result.min_response_time))
    /\ ~RatEq(result.p50_response_time, RatInt(result.max_response_time))
    /\ ~RatEq(result.p90_response_time, RatInt(result.max_response_time))

\* C10 as stated: with a non-empty list and a nonzero duration, shorter than
\* a second or not, within one wall-clock second or across several, the
\* reported peak_rps is at least the reported average RPS.
C10_PeakAtLeastAverage ==
    (opc = "done" /\ results # <<>> /\ end_time - start_time > 0) =>
        RatLeq(result.average_rps, RatInt(result.peak_rps))
====
